---------------------------- MODULE Spec2Model ----------------------------
(***************************************************************************)
(* Alune: the state classifier, the decision dispatcher, the queue         *)
(* negotiator (src/alune/tft/app.py) and the match decision engine         *)
(* (src/alune/tft/game.py) as state machines.                              *)
(*                                                                         *)
(* A captured frame is modelled by the set of templates the screen probe   *)
(* (src/alune/screen.py get_on_screen) finds in it.  Each capture site     *)
(* draws the frame from the templates the code goes on to probe in it.     *)
(* Fixed pacing delays (asyncio.sleep) take model time only inside the     *)
(* timed wait for the accept control, where the deadline can observe it.   *)
(* Device calls return: transport failures are not part of these           *)
(* specifications.                                                         *)
(***************************************************************************)
EXTENDS Integers, Sequences, FiniteSets, TLC

VARIABLES
    pc,                       \* position of the single task in TFTApp.loop
    screenshot,               \* the frame last captured by the app task
    game_state_image_result,  \* result of the last get_app_state
    actions,                  \* device commands issued since the tick began
    game_mode,                \* config: get_game_mode()
    queue_timeout,            \* config: get_queue_timeout()
    waited,                   \* time since the current wait_for began
    polls,                    \* accept probe results of the current wait
    rounds,                   \* queue() invocations of the current dispatch
    qstart,                   \* Len(actions) when the dispatcher called queue()
    accepted_checks,          \* evaluations of the ACCEPTED check this round
    accepted_seen,            \* of which found the overlay
    outcome,                  \* how the last queue() call chain ended
    image_box,                \* where get_app_state located the mode icon
    tap,                      \* the coordinate click_image tapped in this tick
    pause,                    \* TFTApp._pause
    play_next_game,           \* TFTApp._play_next_game
    gpc,                      \* position inside take_game_decision
    gshot,                    \* the screenshot local of take_game_decision
    gactions,                 \* device commands issued in the current game tick
    surrender_early,          \* config: should_surrender()
    xp_chance,                \* config: get_chance_to_buy_xp()
    num_traits,               \* config: len(get_traits())
    rolls_left,               \* augment reroll controls not yet visited
    traits_left,              \* traits buy_from_shop has yet to search
    shop_matches,             \* shop matches handled in the current tick
    surrender_checked,        \* check_surrender_state was called in this tick
    xp_rolled,                \* outcome of this tick's XP check: none, miss or hit
    shop_found,               \* store-card slot of each shop match of this tick
    surrender_wait,           \* the surrender delay slept in this tick, -1 if none
    board_sleeps,             \* the sleeps of the other-board branch of this tick
    dpc,                      \* position of the task under loop_disconnect_wrapper
    shell_command,            \* the command the current _wrap_shell_call runs
    retries,                  \* the retries argument of the current _wrap_shell_call
    attempt_log,              \* outcome of each exec_out of the current call
    sleeps,                   \* the waits of the current call, in order
    shell_result,             \* what the last _wrap_shell_call gave its caller
    connected,                \* ADB.is_connected()
    disconnects,              \* transport timeouts that escaped the main loop
    reconnects,               \* load() calls made for the last of them
    exit_status,              \* the status the process exited with, 0 while running
    use_screen_record,        \* config: should_use_screen_record()
    epc,                      \* position of the engine task among its device calls
    active_decisions,         \* take_app_decision calls that have not returned
    inflight,                 \* device commands issued and not yet completed
    screen_record_task,       \* position of the __screen_record task, if any
    should_stop_screen_recording,  \* ADB._should_stop_screen_recording
    is_screen_recording,      \* ADB._is_screen_recording
    latest_frame,             \* ADB._latest_frame is not None
    latest_frame_age,         \* now - ADB._latest_frame_ts, capped above the window
    handed,                   \* age of the frame get_screen last returned
    fn_pc,                    \* position inside the helper function under study
    fn_args,                  \* its arguments
    fn_locals,                \* its local variables
    fn_result                 \* what it returned

appvars == <<pc, screenshot, game_state_image_result, actions, game_mode,
             queue_timeout, waited, polls, rounds, qstart, accepted_checks,
             accepted_seen, outcome, image_box, tap, pause, play_next_game>>

gamevars == <<gpc, gshot, gactions, surrender_early, xp_chance, num_traits,
              rolls_left, traits_left, shop_matches, surrender_checked,
              xp_rolled, shop_found, surrender_wait, board_sleeps>>

devvars == <<dpc, shell_command, retries, attempt_log, sleeps, shell_result,
             connected, disconnects, reconnects, exit_status>>

recvars == <<use_screen_record, epc, active_decisions, inflight,
             screen_record_task, should_stop_screen_recording,
             is_screen_recording, latest_frame, latest_frame_age, handed>>

fnvars == <<fn_pc, fn_args, fn_locals, fn_result>>

vars == <<appvars, gamevars, devvars, recvars, fnvars>>

----------------------------------------------------------------------------
(* Bounds *)

MaxQueueTimeout == 5
MaxCaptureTime == 1
MaxAcceptedPolls == 2
MaxRounds == 2
MaxTraits == 2
MaxShopMatches == 1
MaxCoord == 1
MaxImageSize == 1
MaxDisconnects == 2
MaxSurface == 3
MaxTemplate == 3
MaxResults == 3
MaxVersionLen == 3
MaxRegion == 2
MaxClassifications == 2
MaxConfigured == 3
MaxSurrenderDelay == 2

(* Program constants *)

AcceptPollInterval == 2
PAUSE_LOGIC == FALSE
MaxRetries == 3
FreshnessWindow == 15

----------------------------------------------------------------------------
(* Templates and states *)

ClassifierProbes ==
    {"check_choice", "rito_logo", "play", "back", "dawn_of_heroes",
     "normal_game", "check", "close_lobby", "composition", "items",
     "dawn_of_heroes_continue", "first_place"}

GameState ==
    {"LOADING", "MAIN_MENU", "CHOOSE_MODE", "LOBBY", "QUEUE_MISSED", "IN_GAME",
     "POST_GAME_DAWN_OF_HEROES", "POST_GAME", "CHOICE_CONFIRM"}

GameModes == {"normal", "dawn of heroes"}

GameStateImageResult(state, image) == [game_state |-> state, image_result |-> image]

NoResult == GameStateImageResult("NONE", "none")

Click(target) == [kind |-> "click", target |-> target]
KeyEvent(target) == [kind |-> "key", target |-> target]
Launch == [kind |-> "launch", target |-> "tft"]
Decision == [kind |-> "call", target |-> "take_game_decision"]

\* A probe that finds nothing once a device command has been issued.
get_on_screen_until_input(frame, image) == image \in frame /\ fn_locals = <<>>

get_on_screen(frame, image) == image \in frame

\* The search result of a found template: the place of the best match and
\* the size of the template.
ImageSearchResult(x, y, width, height) ==
    [x |-> x, y |-> y, width |-> width, height |-> height]

ImageSearchResults ==
    {ImageSearchResult(x, y, w, h) :
        x \in 0..MaxCoord, y \in 0..MaxCoord,
        w \in 1..MaxImageSize, h \in 1..MaxImageSize}

NoBox == ImageSearchResult(-1, -1, 0, 0)

NoTap == <<-1, -1>>

\* The corner of the match is taken for its middle.
get_middle_top_left(search_result) == <<search_result.x, search_result.y>>

get_middle(search_result) ==
    <<search_result.x + (search_result.width \div 2),
      search_result.y + (search_result.height \div 2)>>

\* The coordinates ADB.click_image may tap for a search result.
click_image_fixed_region(search_result, offset_y, randomize) ==
    {<<x, y + offset_y>> : x \in 0..1, y \in 0..1}

click_image(search_result, offset_y, randomize) ==
    IF randomize
    THEN {<<x, y + offset_y>> :
            x \in search_result.x..(search_result.x + search_result.width),
            y \in search_result.y..(search_result.y + search_result.height)}
    ELSE {<<get_middle(search_result)[1], get_middle(search_result)[2] + offset_y>>}

get_button_on_screen(frame, button) == get_on_screen(frame, button)

game_mode_image_normal_only(mode) == "normal_game"

game_mode_image(mode) ==
    IF mode = "dawn of heroes" THEN "dawn_of_heroes" ELSE "normal_game"

get_app_state(frame, mode) ==
    IF get_button_on_screen(frame, "check_choice")
    THEN GameStateImageResult("CHOICE_CONFIRM", "none")
    ELSE IF get_on_screen(frame, "rito_logo")
    THEN GameStateImageResult("LOADING", "none")
    ELSE IF get_on_screen(frame, "play") /\ ~get_on_screen(frame, "back")
    THEN GameStateImageResult("MAIN_MENU", "none")
    ELSE IF get_on_screen(frame, game_mode_image(mode))
    THEN GameStateImageResult("CHOOSE_MODE", game_mode_image(mode))
    ELSE IF get_button_on_screen(frame, "check")
    THEN GameStateImageResult("QUEUE_MISSED", "none")
    ELSE IF get_on_screen(frame, "close_lobby") /\ get_button_on_screen(frame, "play")
    THEN GameStateImageResult("LOBBY", "none")
    ELSE IF get_on_screen(frame, "composition") \/ get_on_screen(frame, "items")
    THEN GameStateImageResult("IN_GAME", "none")
    ELSE IF get_on_screen(frame, "back")
            /\ get_button_on_screen(frame, "dawn_of_heroes_continue")
    THEN GameStateImageResult("POST_GAME_DAWN_OF_HEROES", "none")
    ELSE IF get_on_screen(frame, "first_place") /\ get_on_screen(frame, "back")
    THEN GameStateImageResult("POST_GAME", "none")
    ELSE NoResult

----------------------------------------------------------------------------
(* TFTApp.loop and TFTApp.take_app_decision *)

QueueGhostReset ==
    /\ waited' = 0
    /\ polls' = <<>>
    /\ rounds' = 0
    /\ qstart' = 0
    /\ accepted_checks' = 0
    /\ accepted_seen' = 0
    /\ outcome' = "none"

QueueGhostSame ==
    UNCHANGED <<waited, polls, rounds, qstart, accepted_checks, accepted_seen, outcome>>

AppOuter ==
    /\ UNCHANGED <<game_mode, queue_timeout, pause, play_next_game>>
    /\ UNCHANGED <<gamevars, devvars, recvars, fnvars>>

ConfigSame == AppOuter /\ UNCHANGED <<image_box, tap>>

\* One iteration of TFTApp.loop up to the classification.  delay_next_game
\* (lines 238-249) keeps sleeping at the head of the iteration while
\* _play_next_game is false.
Loop ==
    /\ pc = "loop"
    /\ IF ~play_next_game \/ PAUSE_LOGIC
       THEN /\ pc' = "loop"
            /\ UNCHANGED <<screenshot, game_state_image_result, actions,
                           image_box, tap>>
            /\ QueueGhostSame
       ELSE \E active \in BOOLEAN, frame \in SUBSET ClassifierProbes :
              /\ actions' = IF active THEN <<>> ELSE <<Launch>>
              /\ screenshot' = frame
              /\ game_state_image_result' = get_app_state(frame, game_mode)
              /\ IF get_app_state(frame, game_mode).game_state = "CHOOSE_MODE"
                 THEN image_box' \in ImageSearchResults
                 ELSE image_box' = NoBox
              /\ tap' = NoTap
              /\ pc' = IF get_app_state(frame, game_mode) = NoResult
                       THEN "unknown" ELSE "dispatch"
              /\ QueueGhostReset
    /\ AppOuter

\* The end of a tick: the frame, the classification and the record of the
\* tick's device commands are dropped before the next tick begins.
TickEnd ==
    /\ pc' = "loop"
    /\ screenshot' = {}
    /\ game_state_image_result' = NoResult
    /\ actions' = <<>>
    /\ image_box' = NoBox
    /\ tap' = NoTap
    /\ QueueGhostReset
    /\ AppOuter

UnknownSleep_ClicksPlay ==
    /\ pc = "unknown"
    /\ actions' = Append(actions, Click("play"))
    /\ pc' = "sleep"
    /\ UNCHANGED <<screenshot, game_state_image_result>>
    /\ QueueGhostSame /\ ConfigSame

UnknownSleep == pc = "unknown" /\ TickEnd

TickSleep == pc = "sleep" /\ TickEnd

Dispatching(state) ==
    /\ pc = "dispatch"
    /\ game_state_image_result.game_state = state

ClickAndSleep(target) ==
    /\ actions' = Append(actions, Click(target))
    /\ pc' = "sleep"
    /\ UNCHANGED <<screenshot, game_state_image_result>>
    /\ QueueGhostSame /\ ConfigSame

DispatchLoading ==
    /\ Dispatching("LOADING")
    /\ pc' = "sleep"
    /\ UNCHANGED <<screenshot, game_state_image_result, actions>>
    /\ QueueGhostSame /\ ConfigSame

DispatchMainMenu == Dispatching("MAIN_MENU") /\ ClickAndSleep("play")

DispatchChoiceConfirm == Dispatching("CHOICE_CONFIRM") /\ ClickAndSleep("check_choice")

DispatchChooseMode ==
    /\ Dispatching("CHOOSE_MODE")
    /\ actions' = Append(actions, [kind |-> "click_image",
                                   target |-> game_state_image_result.image_result])
    /\ tap' \in click_image(image_box, 0, TRUE)
    /\ pc' = "sleep"
    /\ UNCHANGED <<screenshot, game_state_image_result, image_box>>
    /\ QueueGhostSame /\ AppOuter

DispatchQueueMissed == Dispatching("QUEUE_MISSED") /\ ClickAndSleep("check")

DispatchLobby_NoQueue == Dispatching("LOBBY") /\ ClickAndSleep("play")

DispatchLobby ==
    /\ Dispatching("LOBBY")
    /\ actions' = Append(actions, Click("play"))
    /\ qstart' = Len(actions) + 1
    /\ rounds' = 1
    /\ waited' = 0
    /\ polls' = <<>>
    /\ pc' = "wait_capture"
    /\ UNCHANGED <<screenshot, game_state_image_result, accepted_checks,
                   accepted_seen, outcome>>
    /\ ConfigSame

DispatchPostGameDawnOfHeroes ==
    Dispatching("POST_GAME_DAWN_OF_HEROES") /\ ClickAndSleep("dawn_of_heroes_continue")

DispatchPostGame == Dispatching("POST_GAME") /\ ClickAndSleep("play")

----------------------------------------------------------------------------
(* TFTApp.wait_for_accept_button under asyncio.wait_for, and TFTApp.queue *)

\* The deadline of asyncio.wait_for cancels the wait at the await it is
\* suspended in once queue_timeout has elapsed.
DeadlineWithin(d) == waited + d >= queue_timeout

WaitForAcceptPoll(leave_when) ==
    /\ pc = "wait_capture"
    /\ \E d \in 0..MaxCaptureTime :
         IF DeadlineWithin(d)
         THEN /\ waited' = queue_timeout
              /\ pc' = "queue_timeout"
              /\ UNCHANGED <<screenshot, polls>>
         ELSE \E frame \in SUBSET {"accept"} :
                /\ waited' = waited + d
                /\ screenshot' = frame
                /\ polls' = Append(polls, get_button_on_screen(frame, "accept"))
                /\ pc' = IF get_button_on_screen(frame, "accept") = leave_when
                         THEN "queue_accept" ELSE "wait_sleep"
    /\ UNCHANGED <<game_state_image_result, actions, rounds, qstart,
                   accepted_checks, accepted_seen, outcome>>
    /\ ConfigSame

WaitForAcceptCapture_WhileFound == WaitForAcceptPoll(FALSE)

WaitForAcceptCapture == WaitForAcceptPoll(TRUE)

\* Every poll starts the deadline anew.
WaitForAcceptSleep_RestartsDeadline ==
    /\ pc = "wait_sleep"
    /\ pc' = "wait_capture"
    /\ waited' = 0
    /\ polls' = <<>>
    /\ UNCHANGED <<screenshot, game_state_image_result, actions, rounds,
                   qstart, accepted_checks, accepted_seen, outcome>>
    /\ ConfigSame

WaitForAcceptSleep ==
    /\ pc = "wait_sleep"
    /\ IF DeadlineWithin(AcceptPollInterval)
       THEN /\ waited' = queue_timeout
            /\ pc' = "queue_timeout"
       ELSE /\ waited' = waited + AcceptPollInterval
            /\ pc' = "wait_capture"
    /\ UNCHANGED <<screenshot, game_state_image_result, actions, polls, rounds,
                   qstart, accepted_checks, accepted_seen, outcome>>
    /\ ConfigSame

QueueTimeout_NoReturn ==
    /\ pc = "queue_timeout"
    /\ actions' = Append(actions, Click("exit_lobby"))
    /\ outcome' = "timeout"
    /\ pc' = "queue_accept"
    /\ UNCHANGED <<screenshot, game_state_image_result, waited, polls, rounds,
                   qstart, accepted_checks, accepted_seen>>
    /\ ConfigSame

QueueTimeout_Uncaught ==
    /\ pc = "queue_timeout"
    /\ outcome' = "timeout"
    /\ pc' = "crashed"
    /\ UNCHANGED <<screenshot, game_state_image_result, actions, waited, polls,
                   rounds, qstart, accepted_checks, accepted_seen>>
    /\ ConfigSame

QueueTimeout ==
    /\ pc = "queue_timeout"
    /\ actions' = Append(actions, Click("exit_lobby"))
    /\ outcome' = "timeout"
    /\ pc' = "queue_return"
    /\ UNCHANGED <<screenshot, game_state_image_result, waited, polls, rounds,
                   qstart, accepted_checks, accepted_seen>>
    /\ ConfigSame

QueueAccept ==
    /\ pc = "queue_accept"
    /\ actions' = Append(actions, Click("accept"))
    /\ pc' = "accepted_poll"
    /\ UNCHANGED <<screenshot, game_state_image_result, waited, polls, rounds,
                   qstart, accepted_checks, accepted_seen, outcome>>
    /\ ConfigSame

AcceptedLoop(again) ==
    /\ pc = "accepted_poll"
    /\ \E frame \in SUBSET {"accepted"} :
         /\ get_on_screen(frame, "accepted") => accepted_seen < MaxAcceptedPolls
         /\ screenshot' = frame
         /\ accepted_checks' = accepted_checks + 1
         /\ IF get_on_screen(frame, "accepted")
            THEN /\ accepted_seen' = accepted_seen + 1
                 /\ pc' = again
            ELSE /\ accepted_seen' = accepted_seen
                 /\ pc' = "settle"
    /\ UNCHANGED <<game_state_image_result, actions, waited, polls, rounds,
                   qstart, outcome>>
    /\ ConfigSame

AcceptedPoll_IfNotWhile == AcceptedLoop("settle")

AcceptedPoll == AcceptedLoop("accepted_poll")

SettleCheck(probes_play) ==
    /\ pc = "settle"
    /\ \E frame \in SUBSET {"accept", "play"} :
         /\ screenshot' = frame
         /\ IF \/ get_button_on_screen(frame, "accept")
               \/ probes_play /\ get_on_screen(frame, "play")
            THEN /\ rounds < MaxRounds
                 /\ rounds' = rounds + 1
                 /\ waited' = 0
                 /\ polls' = <<>>
                 /\ accepted_checks' = 0
                 /\ accepted_seen' = 0
                 /\ pc' = "wait_capture"
                 /\ UNCHANGED outcome
            ELSE /\ outcome' = "resolved"
                 /\ pc' = "queue_return"
                 /\ UNCHANGED <<rounds, waited, polls, accepted_checks, accepted_seen>>
    /\ UNCHANGED <<game_state_image_result, actions, qstart>>
    /\ ConfigSame

Settle_AcceptOnly == SettleCheck(FALSE)

Settle == SettleCheck(TRUE)

QueueReturn ==
    /\ pc = "queue_return"
    /\ pc' = "sleep"
    /\ UNCHANGED <<screenshot, game_state_image_result, actions>>
    /\ QueueGhostSame /\ ConfigSame

queue ==
    \/ WaitForAcceptCapture
    \/ WaitForAcceptSleep
    \/ QueueTimeout
    \/ QueueAccept
    \/ AcceptedPoll
    \/ Settle

----------------------------------------------------------------------------
(* The in-game branch of take_app_decision *)

IsPostGame(result) ==
    result.game_state \in {"POST_GAME", "POST_GAME_DAWN_OF_HEROES"}

\* The dispatch returns without a click when the exit control is already
\* on the first frame.
DispatchInGame_ReturnsOnExitControl ==
    /\ Dispatching("IN_GAME")
    /\ \E frame \in SUBSET {"exit_now"} :
         /\ screenshot' = frame
         /\ pc' = IF get_button_on_screen(frame, "exit_now")
                  THEN "sleep" ELSE "game_iter"
    /\ UNCHANGED <<game_state_image_result, actions>>
    /\ QueueGhostSame /\ ConfigSame

\* take_app_decision, lines 133-137: the first capture of the in-game branch.
DispatchInGame ==
    /\ Dispatching("IN_GAME")
    /\ \E frame \in SUBSET {"exit_now"} :
         /\ screenshot' = frame
         /\ pc' = IF get_button_on_screen(frame, "exit_now")
                  THEN "exit_click" ELSE "game_iter"
    /\ UNCHANGED <<game_state_image_result, actions>>
    /\ QueueGhostSame /\ ConfigSame

GameIter ==
    /\ pc = "game_iter"
    /\ IF PAUSE_LOGIC
       THEN /\ pc' = "game_iter"
            /\ actions' = <<>>
       ELSE \E active \in BOOLEAN :
              IF ~active
              THEN /\ actions' = <<Launch>>
                   /\ pc' = "exit_click"
              ELSE /\ actions' = <<Decision>>
                   /\ pc' = "game_check"
    /\ screenshot' = {}
    /\ UNCHANGED game_state_image_result
    /\ QueueGhostSame /\ ConfigSame

GameCheck_ExitControlOnly ==
    /\ pc = "game_check"
    /\ \E frame \in SUBSET (ClassifierProbes \cup {"exit_now"}) :
         /\ screenshot' = frame
         /\ pc' = IF get_button_on_screen(frame, "exit_now")
                  THEN "exit_click" ELSE "game_iter"
    /\ UNCHANGED <<game_state_image_result, actions>>
    /\ QueueGhostSame /\ ConfigSame

GameCheck ==
    /\ pc = "game_check"
    /\ \E frame \in SUBSET (ClassifierProbes \cup {"exit_now"}) :
         /\ screenshot' = frame
         /\ pc' = IF IsPostGame(get_app_state(frame \ {"exit_now"}, game_mode))
                  THEN "exit_click"
                  ELSE IF get_button_on_screen(frame, "exit_now")
                       THEN "exit_click" ELSE "game_iter"
    /\ UNCHANGED <<game_state_image_result, actions>>
    /\ QueueGhostSame /\ ConfigSame

ExitClick ==
    /\ pc = "exit_click"
    /\ ClickAndSleep("exit_now")

take_app_decision ==
    \/ DispatchLoading
    \/ DispatchMainMenu
    \/ DispatchChoiceConfirm
    \/ DispatchChooseMode
    \/ DispatchQueueMissed
    \/ DispatchLobby
    \/ queue
    \/ QueueReturn
    \/ DispatchInGame
    \/ GameIter
    \/ GameCheck
    \/ ExitClick
    \/ DispatchPostGameDawnOfHeroes
    \/ DispatchPostGame

----------------------------------------------------------------------------

DeviceIdle ==
    /\ dpc = "idle"
    /\ shell_command = "none"
    /\ retries = 0
    /\ attempt_log = <<>>
    /\ sleeps = <<>>
    /\ shell_result = "none"
    /\ connected = TRUE
    /\ disconnects = 0
    /\ reconnects = 0
    /\ exit_status = 0

NoFrame == -1

RecordIdle ==
    /\ use_screen_record = FALSE
    /\ epc = "idle"
    /\ active_decisions = 0
    /\ inflight = {}
    /\ screen_record_task = "none"
    /\ should_stop_screen_recording = FALSE
    /\ is_screen_recording = FALSE
    /\ latest_frame = FALSE
    /\ latest_frame_age = 0
    /\ handed = NoFrame

\* No helper function is being run on its own.
FnIdle ==
    /\ fn_pc = "idle"
    /\ fn_args = <<>>
    /\ fn_locals = <<>>
    /\ fn_result = <<>>

GameIdle ==
    /\ gpc = "idle"
    /\ gshot = {}
    /\ gactions = <<>>
    /\ surrender_early = FALSE
    /\ xp_chance = 0
    /\ num_traits = 1
    /\ rolls_left = {}
    /\ traits_left = 0
    /\ shop_matches = 0
    /\ surrender_checked = FALSE
    /\ xp_rolled = "none"
    /\ shop_found = <<>>
    /\ surrender_wait = -1
    /\ board_sleeps = <<>>

AppIdle ==
    /\ pc = "idle"
    /\ screenshot = {}
    /\ game_state_image_result = NoResult
    /\ actions = <<>>
    /\ game_mode = "normal"
    /\ queue_timeout = 0
    /\ waited = 0
    /\ polls = <<>>
    /\ rounds = 0
    /\ qstart = 0
    /\ accepted_checks = 0
    /\ accepted_seen = 0
    /\ outcome = "none"
    /\ image_box = NoBox
    /\ tap = NoTap
    /\ pause = FALSE
    /\ play_next_game = TRUE

Init ==
    /\ FnIdle
    /\ GameIdle
    /\ DeviceIdle
    /\ RecordIdle
    /\ pc = "loop"
    /\ screenshot = {}
    /\ game_state_image_result = NoResult
    /\ actions = <<>>
    /\ game_mode \in GameModes
    /\ queue_timeout \in 0..MaxQueueTimeout
    /\ waited = 0
    /\ polls = <<>>
    /\ rounds = 0
    /\ qstart = 0
    /\ accepted_checks = 0
    /\ accepted_seen = 0
    /\ outcome = "none"
    /\ image_box = NoBox
    /\ tap = NoTap
    /\ pause = FALSE
    /\ play_next_game = TRUE

Next ==
    \/ Loop
    \/ UnknownSleep
    \/ take_app_decision
    \/ TickSleep

Spec == Init /\ [][Next]_vars

\* The loop is the only task of the engine: once the device call or the
\* sleep a step of the negotiator awaits has returned, the step is taken.
SpecQueue == Spec /\ WF_vars(queue) /\ WF_vars(QueueReturn)

\* TFTApp.toggle_pause, the alt+p hotkey callback: it may run between any
\* two steps of the loop.
toggle_pause ==
    /\ pause' = ~pause
    /\ UNCHANGED <<pc, screenshot, game_state_image_result, actions, image_box, tap,
                   game_mode, queue_timeout, play_next_game>>
    /\ QueueGhostSame
    /\ UNCHANGED <<gamevars, devvars, recvars, fnvars>>

\* TFTApp.toggle_play_next_game, the alt+n hotkey callback.
toggle_play_next_game ==
    /\ play_next_game' = ~play_next_game
    /\ UNCHANGED <<pc, screenshot, game_state_image_result, actions, image_box, tap,
                   game_mode, queue_timeout, pause>>
    /\ QueueGhostSame
    /\ UNCHANGED <<gamevars, devvars, recvars, fnvars>>

NextHotkeys ==
    \/ Next
    \/ toggle_pause
    \/ toggle_play_next_game

SpecHotkeys == Init /\ [][NextHotkeys]_vars

----------------------------------------------------------------------------
(* take_game_decision and its helpers (src/alune/tft/game.py) *)

TickProbes ==
    {"return_to_board", "pick_augment", "choose_one_hidden", "choose_one",
     "buy_xp", "collapse_top_bar", "phase_3_2_full"}

\* What the tick still probes in a frame captured after the hidden choice
\* was clicked.
RevealProbes == {"choose_one", "buy_xp", "collapse_top_bar", "phase_3_2_full"}

AugmentRolls == {"augment_one_roll", "augment_two_roll", "augment_three_roll"}
Augments == {"augment_one", "augment_two", "augment_three"}
StoreCards ==
    <<"store_card_one", "store_card_two", "store_card_three", "store_card_four",
      "store_card_five">>

\* A probe result the rest of the tick does not read again is dropped from
\* the recorded frame.
Consumed(frame, image) == frame \ {image}

GameConfigSame == UNCHANGED <<surrender_early, xp_chance, num_traits>>

GameOuter == GameConfigSame /\ UNCHANGED <<appvars, devvars, recvars, fnvars>>

GameRest == GameOuter /\ UNCHANGED <<xp_rolled, shop_found, surrender_wait, board_sleeps>>

\* asyncio.sleep(seconds) once the tick has sent `after` commands.
Sleep(after, seconds) == [after |-> after, seconds |-> seconds]

\* Lines 208-214: the capture and the other-board check.
GameTick ==
    /\ gpc = "tick"
    /\ \E frame \in SUBSET TickProbes :
         /\ gshot' = frame
         /\ IF get_button_on_screen(frame, "return_to_board")
            THEN /\ gactions' = <<Click("return_to_board")>>
                 /\ board_sleeps' = <<Sleep(1, 1)>>
                 /\ gpc' = "board"
            ELSE /\ gactions' = <<>>
                 /\ board_sleeps' = <<>>
                 /\ gpc' = "augments"
    /\ surrender_checked' = FALSE
    /\ UNCHANGED <<rolls_left, traits_left, shop_matches>>
    /\ GameOuter /\ UNCHANGED <<xp_rolled, shop_found, surrender_wait>>

\* Lines 216-224: the carousel check on a fresh capture, then return.
OtherBoard ==
    /\ gpc = "board"
    /\ \E frame \in SUBSET {"carousel"} :
         /\ gshot' = frame
         /\ IF get_on_screen(frame, "carousel")
            THEN /\ gactions' = gactions \o <<Click("return_to_board"),
                                               [kind |-> "click_box", target |-> "carousel"]>>
                 /\ board_sleeps' = Append(board_sleeps, Sleep(Len(gactions) + 1, 2))
            ELSE UNCHANGED <<gactions, board_sleeps>>
    /\ gpc' = "done"
    /\ UNCHANGED <<rolls_left, traits_left, shop_matches, surrender_checked>>
    /\ GameOuter /\ UNCHANGED <<xp_rolled, shop_found, surrender_wait>>

\* handle_augments, lines 95-103.
HandleAugments ==
    /\ gpc = "augments"
    /\ IF get_on_screen(gshot, "pick_augment")
       THEN /\ rolls_left' = AugmentRolls
            /\ gpc' = "augment_roll"
       ELSE /\ rolls_left' = {}
            /\ gpc' = "hidden"
    /\ gshot' = Consumed(gshot, "pick_augment")
    /\ UNCHANGED <<gactions, traits_left, shop_matches, surrender_checked>>
    /\ GameRest

\* handle_augments, lines 104-108: one visit of the shuffled reroll controls.
AugmentRoll ==
    /\ gpc = "augment_roll"
    /\ rolls_left # {}
    /\ \E augment \in rolls_left, coin \in BOOLEAN :
         /\ gactions' = IF coin THEN Append(gactions, Click(augment)) ELSE gactions
         /\ rolls_left' = rolls_left \ {augment}
    /\ UNCHANGED <<gpc, gshot, traits_left, shop_matches, surrender_checked>>
    /\ GameRest

\* handle_augments, lines 111-116.
AugmentPick ==
    /\ gpc = "augment_roll"
    /\ rolls_left = {}
    /\ \E augment \in Augments : gactions' = Append(gactions, Click(augment))
    /\ gpc' = "hidden"
    /\ UNCHANGED <<gshot, rolls_left, traits_left, shop_matches, surrender_checked>>
    /\ GameRest

\* Lines 228-233.
HiddenChoice ==
    /\ gpc = "hidden"
    /\ IF get_button_on_screen(gshot, "choose_one_hidden")
       THEN /\ gactions' = Append(gactions, Click("choose_one_hidden"))
            /\ \E frame \in SUBSET RevealProbes : gshot' = frame
       ELSE /\ gactions' = gactions
            /\ gshot' = Consumed(gshot, "choose_one_hidden")
    /\ gpc' = "active"
    /\ UNCHANGED <<rolls_left, traits_left, shop_matches, surrender_checked>>
    /\ GameRest

\* Lines 235-240.
ActiveChoiceStep(ends_tick) ==
    /\ gpc = "active"
    /\ IF get_button_on_screen(gshot, "choose_one")
       THEN /\ gactions' = Append(gactions, Click("choose_one"))
            /\ gpc' = IF ends_tick THEN "done" ELSE "xp"
       ELSE /\ gactions' = gactions
            /\ gpc' = "xp"
    /\ gshot' = Consumed(gshot, "choose_one")
    /\ UNCHANGED <<rolls_left, traits_left, shop_matches, surrender_checked>>
    /\ GameRest

ActiveChoice_NoReturn == ActiveChoiceStep(FALSE)

ActiveChoice == ActiveChoiceStep(TRUE)

\* Lines 242-246, and the entry of buy_from_shop.
BuyXp ==
    /\ gpc = "xp"
    /\ IF get_button_on_screen(gshot, "buy_xp")
       THEN \E roll \in 1..100 :
              IF roll <= xp_chance
              THEN /\ gactions' = Append(gactions, Click("buy_xp"))
                   /\ xp_rolled' = "hit"
              ELSE /\ gactions' = gactions
                   /\ xp_rolled' = "miss"
       ELSE /\ gactions' = gactions
            /\ xp_rolled' = "none"
    /\ gpc' = "shop"
    /\ traits_left' = num_traits
    /\ shop_matches' = 0
    /\ shop_found' = <<>>
    /\ gshot' = Consumed(gshot, "buy_xp")
    /\ UNCHANGED <<rolls_left, surrender_checked, surrender_wait, board_sleeps>>
    /\ GameOuter

SlotSeqs(n) == UNION {[1..k -> 0..Len(StoreCards)] : k \in 0..n}

CardClicks(slots) ==
    [i \in 1..Len(slots) |-> Click(StoreCards[slots[i]])]

IsCardSlot(slot) == slot # 0

ShopTrait_ClicksFirst ==
    /\ gpc = "shop"
    /\ traits_left > 0
    /\ \E slots \in SlotSeqs(MaxShopMatches - shop_matches) :
         /\ gactions' = CardClicks(SelectSeq(slots, IsCardSlot)) \o gactions
         /\ shop_matches' = shop_matches + Len(slots)
         /\ shop_found' = shop_found \o slots
    /\ traits_left' = traits_left - 1
    /\ UNCHANGED <<gpc, gshot, rolls_left, surrender_checked, xp_rolled,
                   surrender_wait, board_sleeps>>
    /\ GameOuter

\* buy_from_shop, lines 175-197: one trait of the watch list.  Each match of
\* the trait is given by the store card whose click box holds its middle, 0
\* when no card does.
ShopTrait ==
    /\ gpc = "shop"
    /\ traits_left > 0
    /\ \E slots \in SlotSeqs(MaxShopMatches - shop_matches) :
         /\ gactions' = gactions \o CardClicks(SelectSeq(slots, IsCardSlot))
         /\ shop_matches' = shop_matches + Len(slots)
         /\ shop_found' = shop_found \o slots
    /\ traits_left' = traits_left - 1
    /\ UNCHANGED <<gpc, gshot, rolls_left, surrender_checked, xp_rolled,
                   surrender_wait, board_sleeps>>
    /\ GameOuter

ShopDone ==
    /\ gpc = "shop"
    /\ traits_left = 0
    /\ gpc' = "surrender_check"
    /\ UNCHANGED <<gshot, gactions, rolls_left, traits_left, shop_matches,
                   surrender_checked>>
    /\ GameRest

\* AluneConfig.get_surrender_delay (config.py:163-175) for a configured
\* surrender_random_delay: the delays it can return.
get_surrender_delay(delay_upper_bound) ==
    IF delay_upper_bound <= 0 THEN {0} ELSE 1..delay_upper_bound

\* check_surrender_state, lines 131-147: with the checkpoint on screen the
\* surrender delay is slept before True is returned.
CheckSurrender(should_surrender) ==
    /\ gpc = "surrender_check"
    /\ surrender_checked' = TRUE
    /\ IF ~should_surrender
       THEN /\ gpc' = "done"
            /\ UNCHANGED <<gshot, gactions, surrender_wait>>
       ELSE \E frame \in SUBSET {"phase_3_2_full"}, bound \in 0..MaxSurrenderDelay :
              /\ IF ~get_on_screen(gshot, "collapse_top_bar")
                 THEN /\ gactions' = Append(gactions, Click("expand_top_bar"))
                      /\ gshot' = frame
                 ELSE UNCHANGED <<gshot, gactions>>
              /\ IF get_on_screen(gshot', "phase_3_2_full")
                 THEN /\ surrender_wait' \in get_surrender_delay(bound)
                      /\ gpc' = "surrender"
                 ELSE /\ surrender_wait' = -1
                      /\ gpc' = "done"
    /\ UNCHANGED <<rolls_left, traits_left, shop_matches>>
    /\ GameOuter /\ UNCHANGED <<xp_rolled, shop_found, board_sleeps>>

CheckSurrenderState_IgnoresConfig == CheckSurrender(TRUE)

CheckSurrenderState == CheckSurrender(surrender_early)

\* The surrender click is sent before the back key.
SurrenderGame_ClickBeforeBack ==
    /\ gpc = "surrender"
    /\ gactions' = gactions \o <<Click("surrender"), KeyEvent("back"),
                                 Click("check_surrender")>>
    /\ gpc' = "done"
    /\ UNCHANGED <<gshot, rolls_left, traits_left, shop_matches, surrender_checked>>
    /\ GameRest

\* surrender_game, lines 157-162: each command is awaited and followed by
\* its sleep before the next is sent.
SurrenderGame ==
    /\ gpc = "surrender"
    /\ gactions' = gactions \o <<KeyEvent("back"), Click("surrender"),
                                 Click("check_surrender")>>
    /\ gpc' = "done"
    /\ UNCHANGED <<gshot, rolls_left, traits_left, shop_matches, surrender_checked>>
    /\ GameRest

\* The return to the caller, which sleeps and calls the next tick.
GameTickEnd ==
    /\ gpc = "done"
    /\ gpc' = "tick"
    /\ gshot' = {}
    /\ gactions' = <<>>
    /\ rolls_left' = {}
    /\ traits_left' = 0
    /\ shop_matches' = 0
    /\ surrender_checked' = FALSE
    /\ xp_rolled' = "none"
    /\ shop_found' = <<>>
    /\ surrender_wait' = -1
    /\ board_sleeps' = <<>>
    /\ GameOuter

take_game_decision ==
    \/ GameTick
    \/ OtherBoard
    \/ HandleAugments
    \/ AugmentRoll
    \/ AugmentPick
    \/ HiddenChoice
    \/ ActiveChoice
    \/ BuyXp
    \/ ShopTrait
    \/ ShopDone
    \/ CheckSurrenderState
    \/ SurrenderGame

InitGame ==
    /\ FnIdle
    /\ AppIdle
    /\ DeviceIdle
    /\ RecordIdle
    /\ gpc = "tick"
    /\ gshot = {}
    /\ gactions = <<>>
    /\ surrender_early \in BOOLEAN
    /\ xp_chance \in {0, 25, 100}
    /\ num_traits \in 1..MaxTraits
    /\ rolls_left = {}
    /\ traits_left = 0
    /\ shop_matches = 0
    /\ surrender_checked = FALSE
    /\ xp_rolled = "none"
    /\ shop_found = <<>>
    /\ surrender_wait = -1
    /\ board_sleeps = <<>>

NextGame ==
    \/ take_game_decision
    \/ GameTickEnd

SpecGame == InitGame /\ [][NextGame]_vars


----------------------------------------------------------------------------
(* ADB._wrap_shell_call (src/alune/adb.py) under loop_disconnect_wrapper      *)
(* (src/main.py): the device calls of the main loop, the retries of a shell  *)
(* command and the reconnect after a transport timeout left the loop.        *)

ShellCommands == {"input swipe", "input keyevent 4", "am start", "dumpsys"}

\* What exec_out gives for one attempt: an output, or TcpTimeoutException.
Outputs == {"output a", "output b"}
TcpTimeoutException == "TcpTimeoutException"

DeviceRest == UNCHANGED <<appvars, gamevars, recvars, fnvars>>

\* A click, key event, app launch or query of the loop: _wrap_shell_call
\* is entered with retries = 0.
ShellCall ==
    /\ dpc = "loop"
    /\ \E command \in ShellCommands : shell_command' = command
    /\ retries' = 0
    /\ attempt_log' = <<>>
    /\ sleeps' = <<>>
    /\ shell_result' = "none"
    /\ dpc' = "exec"
    /\ UNCHANGED <<connected, disconnects, reconnects, exit_status>>
    /\ DeviceRest

\* Lines 368-372: one exec_out; a timeout with retries = 3 is re-raised.
ShellAttempt(last_retry) ==
    /\ dpc = "exec"
    /\ \E result \in Outputs \cup {TcpTimeoutException} :
         /\ attempt_log' = Append(attempt_log, result)
         /\ IF result # TcpTimeoutException
            THEN /\ shell_result' = result
                 /\ dpc' = "loop"
            ELSE IF retries = last_retry
            THEN /\ shell_result' = TcpTimeoutException
                 /\ dpc' = "raised"
            ELSE /\ shell_result' = "none"
                 /\ dpc' = "backoff"
    /\ UNCHANGED <<shell_command, retries, sleeps, connected, disconnects,
                   reconnects, exit_status>>
    /\ DeviceRest

ShellExec_RaisesOneEarly == ShellAttempt(MaxRetries - 1)

ShellExec == ShellAttempt(MaxRetries)

\* Lines 374-375: the wait, then the call with retries + 1.
ShellBackoff ==
    /\ dpc = "backoff"
    /\ sleeps' = Append(sleeps, 1 + (1 * retries))
    /\ retries' = retries + 1
    /\ dpc' = "exec"
    /\ UNCHANGED <<shell_command, attempt_log, shell_result, connected,
                   disconnects, reconnects, exit_status>>
    /\ DeviceRest

\* ADB._get_screen_capture: exec_out outside _wrap_shell_call.
ScreenCapture ==
    /\ dpc = "loop"
    /\ \E result \in {"image", TcpTimeoutException} :
         /\ shell_result' = result
         /\ dpc' = IF result = TcpTimeoutException THEN "raised" ELSE "loop"
    /\ shell_command' = "screencap -p"
    /\ retries' = 0
    /\ attempt_log' = <<>>
    /\ sleeps' = <<>>
    /\ UNCHANGED <<connected, disconnects, reconnects, exit_status>>
    /\ DeviceRest

\* loop_disconnect_wrapper, lines 229-231: the exception left loop().
WrapperCatch ==
    /\ dpc = "raised"
    /\ disconnects < MaxDisconnects
    /\ disconnects' = disconnects + 1
    /\ reconnects' = 0
    /\ connected' = FALSE
    /\ dpc' = "reconnect"
    /\ UNCHANGED <<shell_command, retries, attempt_log, sleeps, shell_result,
                   exit_status>>
    /\ DeviceRest

\* ADB.load: _connect_to_device leaves a device or none.
WrapperLoad ==
    /\ dpc = "reconnect"
    /\ connected' \in BOOLEAN
    /\ reconnects' = reconnects + 1
    /\ dpc' = "check"
    /\ UNCHANGED <<shell_command, retries, attempt_log, sleeps, shell_result,
                   disconnects, exit_status>>
    /\ DeviceRest

WrapperCheck_RetriesLoad ==
    /\ dpc = "check"
    /\ dpc' = IF connected THEN "loop" ELSE "reconnect"
    /\ UNCHANGED <<shell_command, retries, attempt_log, sleeps, shell_result,
                   connected, disconnects, reconnects, exit_status>>
    /\ DeviceRest

\* Lines 232-235: raise_and_exit, or the wrapper around a new loop().
WrapperCheck ==
    /\ dpc = "check"
    /\ IF connected
       THEN /\ dpc' = "loop"
            /\ UNCHANGED exit_status
       ELSE /\ dpc' = "exited"
            /\ exit_status' = 1
    /\ UNCHANGED <<shell_command, retries, attempt_log, sleeps, shell_result,
                   connected, disconnects, reconnects>>
    /\ DeviceRest

wrap_shell_call ==
    \/ ShellExec
    \/ ShellBackoff

loop_disconnect_wrapper ==
    \/ WrapperCatch
    \/ WrapperLoad
    \/ WrapperCheck

InitDevice ==
    /\ FnIdle
    /\ AppIdle
    /\ GameIdle
    /\ RecordIdle
    /\ dpc = "loop"
    /\ shell_command = "none"
    /\ retries = 0
    /\ attempt_log = <<>>
    /\ sleeps = <<>>
    /\ shell_result = "none"
    /\ connected = TRUE
    /\ disconnects = 0
    /\ reconnects = 0
    /\ exit_status = 0

NextDevice ==
    \/ ShellCall
    \/ wrap_shell_call
    \/ ScreenCapture
    \/ loop_disconnect_wrapper

SpecDevice == InitDevice /\ [][NextDevice]_vars

----------------------------------------------------------------------------
(* The screen-record task and the engine's device calls (alune/adb.py)     *)

ScreenCap == "screencap -p"
ScreenRecord == "screenrecord"
PkillScreenRecord == "pkill -2 screenrecord"

Command(owner, command) == [by |-> owner, command |-> command]
EngineInFlight == {c \in inflight : c.by = "engine"}
RecorderInFlight == {c \in inflight : c.by = "recorder"}

RecordRest == UNCHANGED <<appvars, gamevars, devvars, fnvars, use_screen_record>>
RecorderSame == UNCHANGED <<screen_record_task, should_stop_screen_recording,
                            is_screen_recording, latest_frame, latest_frame_age>>
EngineSame == UNCHANGED <<epc, active_decisions, handed>>

\* Where an awaited device call resumes: inside take_app_decision or in loop().
ReturnPosition == IF active_decisions > 0 THEN "decide" ELSE "loop"

\* A device command that is sent without being awaited.
EngineIssue_NotAwaited ==
    /\ epc \in {"loop", "decide"}
    /\ \E command \in ShellCommands :
          inflight' = inflight \cup {Command("engine", command)}
    /\ UNCHANGED <<epc, active_decisions, handed>>
    /\ RecorderSame
    /\ RecordRest

\* await self._wrap_shell_call(...): the engine suspends until it completes.
EngineIssue ==
    /\ epc \in {"loop", "decide"}
    /\ \E command \in ShellCommands :
          inflight' = inflight \cup {Command("engine", command)}
    /\ epc' = "command"
    /\ UNCHANGED <<active_decisions, handed>>
    /\ RecorderSame
    /\ RecordRest

\* asyncio runs a task made by create_task up to its first await as soon as
\* the engine suspends, so no suspension of the engine ends before that.
TaskHasStarted == screen_record_task # "created"

\* The awaited command returns; a screencap returns a frame taken just now.
EngineDone ==
    /\ epc = "command"
    /\ TaskHasStarted
    /\ inflight' = inflight \ EngineInFlight
    /\ handed' = IF Command("engine", ScreenCap) \in inflight THEN 0 ELSE handed
    /\ epc' = ReturnPosition
    /\ UNCHANGED active_decisions
    /\ RecorderSame
    /\ RecordRest

\* mark_screen_record_for_close, lines 116-120.
mark_screen_record_for_close == should_stop_screen_recording' = TRUE

\* create_screen_record_task, lines 122-132: nothing happens while the
\* previous task has not finished.
create_screen_record_task ==
    IF screen_record_task \notin {"none", "done"}
      THEN UNCHANGED <<screen_record_task, should_stop_screen_recording>>
      ELSE /\ should_stop_screen_recording' = FALSE
           /\ screen_record_task' = "created"

\* get_screen, lines 216-226, up to its first suspension point.
get_screen ==
    /\ epc \in {"loop", "decide"}
    /\ IF use_screen_record
         THEN IF latest_frame /\ latest_frame_age > FreshnessWindow
                THEN /\ mark_screen_record_for_close
                     /\ epc' = "restart_sleep"
                     /\ UNCHANGED <<handed, inflight>>
                ELSE /\ handed' = IF latest_frame THEN latest_frame_age ELSE NoFrame
                     /\ UNCHANGED <<epc, should_stop_screen_recording, inflight>>
         ELSE /\ inflight' = inflight \cup {Command("engine", ScreenCap)}
              /\ epc' = "command"
              /\ UNCHANGED <<handed, should_stop_screen_recording>>
    /\ UNCHANGED <<active_decisions, screen_record_task, is_screen_recording,
                   latest_frame, latest_frame_age>>
    /\ RecordRest

\* get_screen, lines 223-225: after the sleep the task is re-created and
\* self._latest_frame is returned.
get_screen_restart ==
    /\ epc = "restart_sleep"
    /\ TaskHasStarted
    /\ create_screen_record_task
    /\ handed' = IF latest_frame THEN latest_frame_age ELSE NoFrame
    /\ epc' = ReturnPosition
    /\ UNCHANGED <<active_decisions, inflight, is_screen_recording,
                   latest_frame, latest_frame_age>>
    /\ RecordRest

\* TFTApp.loop calls take_app_decision with the frame it was handed.
EngineDispatch ==
    /\ epc = "loop"
    /\ handed # NoFrame
    /\ active_decisions' = active_decisions + 1
    /\ epc' = "decide"
    /\ UNCHANGED <<inflight, handed>>
    /\ RecorderSame
    /\ RecordRest

\* take_app_decision returns to loop().
EngineReturn ==
    /\ epc = "decide"
    /\ active_decisions' = active_decisions - 1
    /\ epc' = "loop"
    /\ UNCHANGED <<inflight, handed>>
    /\ RecorderSame
    /\ RecordRest

\* __screen_record, lines 419-422.
RecordStart ==
    /\ screen_record_task = "created"
    /\ IF is_screen_recording
         THEN /\ screen_record_task' = "done"
              /\ UNCHANGED inflight
         ELSE /\ screen_record_task' = "pkill_start"
              /\ inflight' = inflight \cup {Command("recorder", PkillScreenRecord)}
    /\ UNCHANGED <<should_stop_screen_recording, is_screen_recording,
                   latest_frame, latest_frame_age>>
    /\ EngineSame
    /\ RecordRest

\* Lines 422-425: the first pkill returns.
RecordPkillStartDone ==
    /\ screen_record_task = "pkill_start"
    /\ inflight' = inflight \ RecorderInFlight
    /\ is_screen_recording' = TRUE
    /\ screen_record_task' = "loop"
    /\ UNCHANGED <<should_stop_screen_recording, latest_frame, latest_frame_age>>
    /\ EngineSame
    /\ RecordRest

\* Line 426 and lines 440-441: the while test; a set flag leads to the last pkill.
RecordLoop ==
    /\ screen_record_task = "loop"
    /\ IF should_stop_screen_recording
         THEN /\ screen_record_task' = "pkill_end"
              /\ inflight' = inflight \cup {Command("recorder", PkillScreenRecord)}
         ELSE /\ screen_record_task' = "stream"
              /\ inflight' = inflight \cup {Command("recorder", ScreenRecord)}
    /\ UNCHANGED <<should_stop_screen_recording, is_screen_recording,
                   latest_frame, latest_frame_age>>
    /\ EngineSame
    /\ RecordRest

\* __write_frame_data, lines 406-413: a chunk of the stream arrives.  With
\* the flag set the stream is left; otherwise __convert_frame_to_cv2 (lines
\* 377-396) stores the decoded frame and its timestamp.  A chunk that does
\* not decode changes nothing.
RecordStreamData ==
    /\ screen_record_task = "stream"
    /\ IF should_stop_screen_recording
         THEN /\ screen_record_task' = "loop"
              /\ inflight' = inflight \ RecorderInFlight
              /\ UNCHANGED <<latest_frame, latest_frame_age>>
         ELSE /\ latest_frame' = TRUE
              /\ latest_frame_age' = 0
              /\ UNCHANGED <<screen_record_task, inflight>>
    /\ UNCHANGED <<should_stop_screen_recording, is_screen_recording>>
    /\ EngineSame
    /\ RecordRest

\* The stream ends when screenrecord reaches its time limit.
RecordStreamEnd ==
    /\ screen_record_task = "stream"
    /\ screen_record_task' = "loop"
    /\ inflight' = inflight \ RecorderInFlight
    /\ UNCHANGED <<should_stop_screen_recording, is_screen_recording,
                   latest_frame, latest_frame_age>>
    /\ EngineSame
    /\ RecordRest

\* Lines 429-436: the stream times out and screenrecord is killed.
RecordStreamTimeout ==
    /\ screen_record_task = "stream"
    /\ screen_record_task' = "timeout_pkill"
    /\ inflight' = (inflight \ RecorderInFlight)
                      \cup {Command("recorder", PkillScreenRecord)}
    /\ UNCHANGED <<should_stop_screen_recording, is_screen_recording,
                   latest_frame, latest_frame_age>>
    /\ EngineSame
    /\ RecordRest

\* Lines 434-438: the pkill returns or raises, then the task sleeps.
RecordTimeoutPkillDone ==
    /\ screen_record_task = "timeout_pkill"
    /\ screen_record_task' = "timeout_sleep"
    /\ inflight' = inflight \ RecorderInFlight
    /\ UNCHANGED <<should_stop_screen_recording, is_screen_recording,
                   latest_frame, latest_frame_age>>
    /\ EngineSame
    /\ RecordRest

\* Line 438: the sleep ends.
RecordTimeoutSleepDone ==
    /\ screen_record_task = "timeout_sleep"
    /\ screen_record_task' = "loop"
    /\ UNCHANGED <<inflight, should_stop_screen_recording, is_screen_recording,
                   latest_frame, latest_frame_age>>
    /\ EngineSame
    /\ RecordRest

\* Lines 441-442: the last pkill returns and the task finishes.
RecordPkillEndDone ==
    /\ screen_record_task = "pkill_end"
    /\ inflight' = inflight \ RecorderInFlight
    /\ is_screen_recording' = FALSE
    /\ screen_record_task' = "done"
    /\ UNCHANGED <<should_stop_screen_recording, latest_frame, latest_frame_age>>
    /\ EngineSame
    /\ RecordRest

\* An awaited device call of the task raises an error that line 429 does not
\* catch (exec_out at lines 422 and 441, streaming_shell at line 406): the
\* coroutine is left where it stands and the task is done.
RecordRaise ==
    /\ screen_record_task \in {"pkill_start", "stream", "pkill_end"}
    /\ inflight' = inflight \ RecorderInFlight
    /\ screen_record_task' = "done"
    /\ UNCHANGED <<should_stop_screen_recording, is_screen_recording,
                   latest_frame, latest_frame_age>>
    /\ EngineSame
    /\ RecordRest

screen_record ==
    \/ RecordStart
    \/ RecordPkillStartDone
    \/ RecordLoop
    \/ RecordStreamData
    \/ RecordStreamEnd
    \/ RecordStreamTimeout
    \/ RecordTimeoutPkillDone
    \/ RecordTimeoutSleepDone
    \/ RecordPkillEndDone
    \/ RecordRaise

\* One time-unit passes: now - self._latest_frame_ts grows.  Ages above the
\* window are not told apart.
Tick ==
    /\ latest_frame
    /\ latest_frame_age <= FreshnessWindow
    /\ latest_frame_age' = latest_frame_age + 1
    /\ UNCHANGED <<inflight, screen_record_task, should_stop_screen_recording,
                   is_screen_recording, latest_frame>>
    /\ EngineSame
    /\ RecordRest

\* ADB.__init__, lines 50-58; with screen recording configured the task has
\* been created once at start-up.
InitRecord ==
    /\ FnIdle
    /\ AppIdle
    /\ GameIdle
    /\ DeviceIdle
    /\ use_screen_record \in BOOLEAN
    /\ epc = "loop"
    /\ active_decisions = 0
    /\ inflight = {}
    /\ screen_record_task = IF use_screen_record THEN "created" ELSE "none"
    /\ should_stop_screen_recording = FALSE
    /\ is_screen_recording = FALSE
    /\ latest_frame = FALSE
    /\ latest_frame_age = 0
    /\ handed = NoFrame

NextRecord ==
    \/ EngineIssue
    \/ EngineDone
    \/ get_screen
    \/ get_screen_restart
    \/ EngineDispatch
    \/ EngineReturn
    \/ screen_record
    \/ Tick

\* The engine keeps polling the screen and every awaited call returns; the
\* recorder task is scheduled whenever it can run, and a stream that is open
\* again and again delivers data.
SpecRecord ==
    /\ InitRecord
    /\ [][NextRecord]_vars
    /\ SF_vars(get_screen)
    /\ WF_vars(get_screen_restart)
    /\ WF_vars(EngineDone)
    /\ WF_vars(screen_record)
    /\ SF_vars(RecordStreamData)
    /\ WF_vars(Tick)

----------------------------------------------------------------------------
(* Helper functions run on their own: get_all_on_screen (alune/screen.py)  *)

FnRest == UNCHANGED <<appvars, gamevars, devvars, recvars>>

Max(a, b) == IF a >= b THEN a ELSE b
Min(a, b) == IF a <= b THEN a ELSE b
Abs(a) == IF a >= 0 THEN a ELSE -a

\* The indices a[from:to] selects in an array axis of length n.
PySlice(from, to, n) ==
    LET start == IF from < 0 THEN Max(from + n, 0) ELSE Min(from, n)
        stop == IF to < 0 THEN Max(to + n, 0) ELSE Min(to, n)
    IN  start..(stop - 1)

\* The result of matchTemplate is a MaxSurface x MaxSurface array; it is
\* kept as the set of locations whose value exceeds the precision.
Locations == (0..(MaxSurface - 1)) \X (0..(MaxSurface - 1))

\* Lines 166-170: search_result[height_from:height_to, width_from:width_to].
SuppressedBy(max_location, to_find_width, to_find_height) ==
    LET height_from == max_location[2] - to_find_height \div 2
        height_to == max_location[2] + to_find_height \div 2 + 1
        width_from == max_location[1] - to_find_width \div 2
        width_to == max_location[1] + to_find_width \div 2 + 1
    IN  PySlice(width_from, width_to, MaxSurface)
           \X PySlice(height_from, height_to, MaxSurface)

\* get_all_on_screen, lines 162-182: one pass of the while loop.  minMaxLoc
\* gives a location of the largest value; any location above the precision
\* can be that one.  The loop is followed for MaxResults results.
get_all_on_screen ==
    /\ fn_pc = "get_all_on_screen"
    /\ IF fn_locals.search_result # {}
         THEN /\ Len(fn_locals.image_search_results) < MaxResults
              /\ \E max_location \in fn_locals.search_result :
                   fn_locals' =
                     [search_result |->
                        fn_locals.search_result
                          \ SuppressedBy(max_location, fn_args.to_find_width,
                                         fn_args.to_find_height),
                      image_search_results |->
                        Append(fn_locals.image_search_results,
                               ImageSearchResult(max_location[1], max_location[2],
                                                 fn_args.to_find_width,
                                                 fn_args.to_find_height))]
              /\ UNCHANGED <<fn_pc, fn_result>>
         ELSE /\ fn_result' = fn_locals.image_search_results
              /\ fn_pc' = "returned"
              /\ UNCHANGED fn_locals
    /\ UNCHANGED fn_args
    /\ FnRest

InitSearch ==
    /\ AppIdle
    /\ GameIdle
    /\ DeviceIdle
    /\ RecordIdle
    /\ fn_pc = "get_all_on_screen"
    /\ fn_args \in [search_result : SUBSET Locations,
                    to_find_width : 1..MaxTemplate,
                    to_find_height : 1..MaxTemplate]
    /\ fn_locals = [search_result |-> fn_args.search_result,
                    image_search_results |-> <<>>]
    /\ fn_result = <<>>

NextSearch == get_all_on_screen

SpecSearch == InitSearch /\ [][NextSearch]_vars

----------------------------------------------------------------------------
(* is_version_string_newer (alune/helpers.py) *)

\* A version string is the sequence of its characters.
VersionChars == {"0", "1", "2", ".", "b"}
VersionStrings == UNION {[1..n -> VersionChars] : n \in 1..MaxVersionLen}

\* int() raises ValueError; no part made of digits has this value.
ValueError == -1

\* is_version_string_newer, lines 60-92: str.split("."), int() of each part,
\* and the loop over the parts both versions have.
is_version_string_newer(version_one, version_two, ignore_minor_mismatch) ==
    LET RECURSIVE split(_, _)
        split(s, part) ==
            IF s = <<>> THEN <<part>>
            ELSE IF Head(s) = "." THEN <<part>> \o split(Tail(s), <<>>)
            ELSE split(Tail(s), Append(part, Head(s)))
        digit(c) == CASE c = "0" -> 0 [] c = "1" -> 1 [] c = "2" -> 2
        RECURSIVE value(_, _)
        value(part, acc) ==
            IF part = <<>> THEN acc
            ELSE value(Tail(part), 10 * acc + digit(Head(part)))
        int(part) ==
            IF part = <<>> \/ \E k \in 1..Len(part) : part[k] \notin {"0", "1", "2"}
            THEN ValueError
            ELSE value(part, 0)
        version_one_parts == split(version_one, <<>>)
        version_two_parts == split(version_two, <<>>)
        version_part_amount == Min(Len(version_one_parts), Len(version_two_parts))
        RECURSIVE loop(_)
        loop(i) ==
            IF i > version_part_amount THEN FALSE
            ELSE IF \/ int(version_one_parts[i]) = ValueError
                    \/ int(version_two_parts[i]) = ValueError
                 THEN FALSE
            ELSE IF int(version_one_parts[i]) <= int(version_two_parts[i])
                 THEN loop(i + 1)
            ELSE IF ignore_minor_mismatch /\ i = version_part_amount
                 THEN FALSE
            ELSE TRUE
    IN  loop(1)

\* check_version and check_phone_preconditions (main.py) call it with two
\* version strings.
check_version ==
    /\ fn_pc = "is_version_string_newer"
    /\ fn_result' = is_version_string_newer(fn_args.version_one, fn_args.version_two,
                                            fn_args.ignore_minor_mismatch)
    /\ fn_pc' = "returned"
    /\ UNCHANGED <<fn_args, fn_locals>>
    /\ FnRest

InitVersion ==
    /\ AppIdle
    /\ GameIdle
    /\ DeviceIdle
    /\ RecordIdle
    /\ fn_pc = "is_version_string_newer"
    /\ fn_args \in [version_one : VersionStrings,
                    version_two : VersionStrings,
                    ignore_minor_mismatch : BOOLEAN]
    /\ fn_locals = <<>>
    /\ fn_result = <<>>

NextVersion == check_version

SpecVersion == InitVersion /\ [][NextVersion]_vars

----------------------------------------------------------------------------
(* BoundingBox and the Button catalog (alune/images.py), click_button and  *)
(* click_bounding_box (alune/adb.py)                                       *)

BoundingBox(min_x, min_y, max_x, max_y) ==
    [min_x |-> min_x, min_y |-> min_y, max_x |-> max_x, max_y |-> max_y]

Coordinate(x, y) == [x |-> x, y |-> y]

\* Button, lines 202-249: the click_box of every button.
Button ==
    [play |-> BoundingBox(950, 600, 1200, 650),
     accept |-> BoundingBox(525, 520, 755, 545),
     exit_now |-> BoundingBox(550, 425, 740, 440),
     check |-> BoundingBox(555, 425, 725, 470),
     normal_game |-> BoundingBox(50, 250, 275, 580),
     buy_xp |-> BoundingBox(35, 593, 124, 682),
     buy_xp_disabled |-> BoundingBox(35, 593, 124, 682),
     return_to_board |-> BoundingBox(1155, 595, 1242, 682),
     choose_one |-> BoundingBox(636, 91, 693, 186),
     choose_one_hidden |-> BoundingBox(1155, 595, 1242, 682),
     store_card_one |-> BoundingBox(180, 47, 363, 272),
     store_card_two |-> BoundingBox(402, 47, 585, 272),
     store_card_three |-> BoundingBox(624, 47, 807, 272),
     store_card_four |-> BoundingBox(845, 47, 1028, 272),
     store_card_five |-> BoundingBox(1067, 47, 1250, 272),
     augment_one |-> BoundingBox(170, 120, 424, 520),
     augment_two |-> BoundingBox(516, 120, 770, 520),
     augment_three |-> BoundingBox(863, 120, 1117, 520),
     augment_one_roll |-> BoundingBox(266, 602, 323, 659),
     augment_two_roll |-> BoundingBox(612, 602, 669, 659),
     augment_three_roll |-> BoundingBox(659, 602, 1016, 659)]

\* The capture_area of the buttons that have one, and the boxes game.py
\* passes to get_all_on_screen and click_bounding_box.
OtherBoxes ==
    {BoundingBox(520, 400, 775, 425), BoundingBox(9, 550, 170, 708),
     BoundingBox(1128, 568, 1269, 709), BoundingBox(170, 110, 1250, 230),
     BoundingBox(420, 180, 825, 425)}

CatalogBoxes == {Button[name] : name \in DOMAIN Button} \cup OtherBoxes

\* Every box with corners in 0..MaxRegion, ordered or not.
SmallBoxes ==
    {BoundingBox(a, b, c, d) : a \in 0..MaxRegion, b \in 0..MaxRegion,
                               c \in 0..MaxRegion, d \in 0..MaxRegion}

\* A point one past max_x can be drawn.
get_random_point_past_max(box) ==
    {Coordinate(x, y) : x \in box.min_x..(box.max_x + 1), y \in box.min_y..box.max_y}

\* BoundingBox.get_random_point, lines 83-96: random.randint includes both
\* ends.
get_random_point(box) ==
    {Coordinate(x, y) : x \in box.min_x..box.max_x, y \in box.min_y..box.max_y}

\* BoundingBox.is_inside, lines 98-108.
is_inside(box, coordinate) ==
    /\ box.min_x <= coordinate.x /\ coordinate.x <= box.max_x
    /\ box.min_y <= coordinate.y /\ coordinate.y <= box.max_y

\* ADB.click_button and ADB.click_bounding_box, lines 264-282: the point
\* drawn is the point tapped.  randint raises ValueError on an empty range.
click_button ==
    /\ fn_pc = "click_button"
    /\ IF fn_args.click_box.min_x > fn_args.click_box.max_x
          \/ fn_args.click_box.min_y > fn_args.click_box.max_y
         THEN /\ fn_result' = ValueError
              /\ fn_pc' = "raised"
         ELSE /\ fn_result' \in get_random_point(fn_args.click_box)
              /\ fn_pc' = "clicked"
    /\ UNCHANGED <<fn_args, fn_locals>>
    /\ FnRest

InitRegion ==
    /\ AppIdle
    /\ GameIdle
    /\ DeviceIdle
    /\ RecordIdle
    /\ fn_pc = "click_button"
    /\ fn_args \in [click_box : CatalogBoxes \cup SmallBoxes]
    /\ fn_locals = <<>>
    /\ fn_result = <<>>

NextRegion == click_button

SpecRegion == InitRegion /\ [][NextRegion]_vars

----------------------------------------------------------------------------
(* TFTApp.get_app_state called again and again on one frame *)

\* What the dispatcher and the match engine do between two classifications.
BetweenActions == {Click("play"), KeyEvent("back"), Decision}

\* get_app_state, lines 170-209, classifies the frame it is given.
Classify ==
    /\ fn_pc = "get_app_state"
    /\ Len(fn_result) < MaxClassifications
    /\ fn_result' = Append(fn_result,
                           get_app_state(fn_args.screenshot, fn_args.game_mode))
    /\ UNCHANGED <<fn_pc, fn_args, fn_locals>>
    /\ FnRest

\* take_app_decision or take_game_decision issues a device command.
ActBetween ==
    /\ fn_pc = "get_app_state"
    /\ Len(fn_locals) < MaxClassifications
    /\ \E a \in BetweenActions : fn_locals' = Append(fn_locals, a)
    /\ UNCHANGED <<fn_pc, fn_args, fn_result>>
    /\ FnRest

InitClassify ==
    /\ AppIdle
    /\ GameIdle
    /\ DeviceIdle
    /\ RecordIdle
    /\ fn_pc = "get_app_state"
    /\ fn_args \in [screenshot : SUBSET ClassifierProbes, game_mode : GameModes]
    /\ fn_locals = <<>>
    /\ fn_result = <<>>

NextClassify ==
    \/ Classify
    \/ ActBetween

SpecClassify == InitClassify /\ [][NextClassify]_vars

----------------------------------------------------------------------------
(* AluneConfig._sanitize_traits and get_traits (alune/config.py) *)

\* images.Trait, the traits of the normal game mode.
Trait == {"HEAVENLY"}

\* images.DawnOfHeroesTrait, the traits of the other game mode.
DawnOfHeroesTrait == {"DAWN_TRAIT"}

\* trait_class.get_default_traits(): a non-empty list of traits of the class.
get_default_traits(trait_class) ==
    IF trait_class = DawnOfHeroesTrait THEN <<"DAWN_TRAIT">> ELSE <<"HEAVENLY">>

\* The fallback to the default traits is missing.
sanitize_traits_no_fallback(game_mode_value, configured_traits) ==
    LET trait_class == IF game_mode_value = "dawn of heroes"
                       THEN DawnOfHeroesTrait ELSE Trait
        upper(trait) == CASE trait = "heavenly" -> "HEAVENLY"
                          [] trait = "HEAVENLY" -> "HEAVENLY"
                          [] trait = "dawn_trait" -> "DAWN_TRAIT"
                          [] trait = "bogus" -> "BOGUS"
        RECURSIVE loop(_, _)
        loop(rest, allowed_traits) ==
            IF rest = <<>> THEN allowed_traits
            ELSE IF upper(Head(rest)) \notin trait_class
                 THEN loop(Tail(rest), allowed_traits)
                 ELSE loop(Tail(rest), Append(allowed_traits, upper(Head(rest))))
    IN  loop(configured_traits, <<>>)

\* _sanitize_traits, lines 102-125: the value stored as config["traits"].
sanitize_traits(game_mode_value, configured_traits) ==
    LET trait_class == IF game_mode_value = "dawn of heroes"
                       THEN DawnOfHeroesTrait ELSE Trait
        upper(trait) == CASE trait = "heavenly" -> "HEAVENLY"
                          [] trait = "HEAVENLY" -> "HEAVENLY"
                          [] trait = "dawn_trait" -> "DAWN_TRAIT"
                          [] trait = "bogus" -> "BOGUS"
        RECURSIVE loop(_, _)
        loop(rest, allowed_traits) ==
            IF rest = <<>> THEN allowed_traits
            ELSE IF upper(Head(rest)) \notin trait_class
                 THEN loop(Tail(rest), allowed_traits)
                 ELSE loop(Tail(rest), Append(allowed_traits, upper(Head(rest))))
        allowed == loop(configured_traits, <<>>)
    IN  IF Len(allowed) = 0 THEN get_default_traits(trait_class) ELSE allowed

\* AluneConfig._sanitize runs _sanitize_traits once when the configuration
\* is loaded; get_traits (lines 145-152) returns what it stored.
sanitize ==
    /\ fn_pc = "_sanitize_traits"
    /\ fn_result' = sanitize_traits(fn_args.game_mode, fn_args.traits)
    /\ fn_pc' = "get_traits"
    /\ UNCHANGED <<fn_args, fn_locals>>
    /\ FnRest

InitTraits ==
    /\ AppIdle
    /\ GameIdle
    /\ DeviceIdle
    /\ RecordIdle
    /\ fn_pc = "_sanitize_traits"
    /\ fn_args \in
         [game_mode : GameModes,
          traits : UNION {[1..n -> {"heavenly", "HEAVENLY", "dawn_trait", "bogus"}] :
                            n \in 0..MaxConfigured}]
    /\ fn_locals = <<>>
    /\ fn_result = <<>>

NextTraits == sanitize

SpecTraits == InitTraits /\ [][NextTraits]_vars

----------------------------------------------------------------------------
(* buy_from_shop (tft/game.py) with the places of the matches and of the
   store cards *)

\* The crop buy_from_shop searches, game.py:179.
ShopBox == BoundingBox(170, 110, 1250, 230)

\* What get_all_on_screen can return for one match of a trait template of
\* the given size inside ShopBox (screen.py:173-180): the match's place in
\* the crop moved by the crop's corner.  The places are at least half a
\* template away from the crop's top and left edge, where the search ends.
ShopSearchResults ==
    {ImageSearchResult(ShopBox.min_x + x, ShopBox.min_y + y, size, size) :
        x \in {12, 183, 184, 221, 530, 1057},
        y \in {50},
        size \in {20, 23}}

\* The orders random.shuffle can leave a list in.
Shuffles(list) ==
    {order \in [1..Len(list) -> {list[i] : i \in 1..Len(list)}] :
        \A i, j \in 1..Len(list) : order[i] = order[j] => i = j}

\* buy_from_shop, lines 189-195: the store cards are visited in the given
\* order; the first whose click box holds the middle of the match is
\* clicked and the visit ends.
store_card_clicks(store_cards, search_result) ==
    LET RECURSIVE visit(_)
        visit(i) ==
            IF i > Len(store_cards) THEN <<>>
            ELSE IF ~is_inside(Button[store_cards[i]],
                               Coordinate(get_middle(search_result)[1],
                                          get_middle(search_result)[2]))
                 THEN visit(i + 1)
                 ELSE <<Click(store_cards[i])>>
    IN  visit(1)

\* buy_from_shop, lines 175-183: the next trait is searched; a trait without
\* a match is skipped.  fn_result lists the number of matches of each
\* trait searched.
buy_from_shop_search ==
    /\ fn_pc = "for_trait"
    /\ IF fn_locals.trait > fn_args.traits
       THEN /\ fn_pc' = "returned"
            /\ UNCHANGED <<fn_locals, fn_result>>
       ELSE \E n \in 0..MaxShopMatches : \E search_results \in [1..n -> ShopSearchResults] :
              /\ fn_result' = Append(fn_result, n)
              /\ IF n = 0
                 THEN /\ fn_pc' = "for_trait"
                      /\ fn_locals' = [trait |-> fn_locals.trait + 1,
                                       search_results |-> <<>>, store_cards |-> <<>>,
                                       result |-> 0, clicks |-> <<>>]
                 ELSE /\ fn_pc' = "shuffle"
                      /\ fn_locals' = [trait |-> fn_locals.trait,
                                       search_results |-> search_results,
                                       store_cards |-> <<>>,
                                       result |-> 0, clicks |-> <<>>]
    /\ UNCHANGED fn_args
    /\ FnRest

\* buy_from_shop, lines 186-187.
buy_from_shop_shuffle ==
    /\ fn_pc = "shuffle"
    /\ \E store_cards \in Shuffles(StoreCards) :
          fn_locals' = [fn_locals EXCEPT !.store_cards = store_cards]
    /\ fn_pc' = "for_result"
    /\ UNCHANGED <<fn_args, fn_result>>
    /\ FnRest

\* buy_from_shop, lines 188-197: one match is handled.
buy_from_shop_result ==
    /\ fn_pc = "for_result"
    /\ LET search_result == fn_locals.search_results[fn_locals.result + 1]
           last == fn_locals.result + 1 = Len(fn_locals.search_results)
       IN  /\ fn_locals' =
                 [fn_locals EXCEPT
                    !.clicks = @ \o store_card_clicks(fn_locals.store_cards, search_result),
                    !.result = @ + 1,
                    !.trait = IF last THEN @ + 1 ELSE @]
           /\ fn_pc' = IF last THEN "for_trait" ELSE "for_result"
    /\ UNCHANGED <<fn_args, fn_result>>
    /\ FnRest

InitShop ==
    /\ AppIdle
    /\ GameIdle
    /\ DeviceIdle
    /\ RecordIdle
    /\ fn_pc = "for_trait"
    /\ fn_args \in [traits : 1..MaxTraits]
    /\ fn_locals = [trait |-> 1, search_results |-> <<>>, store_cards |-> <<>>,
                    result |-> 0, clicks |-> <<>>]
    /\ fn_result = <<>>

NextShop ==
    \/ buy_from_shop_search
    \/ buy_from_shop_shuffle
    \/ buy_from_shop_result

SpecShop == InitShop /\ [][NextShop]_vars

----------------------------------------------------------------------------
(* handle_augments (tft/game.py) with the points its clicks tap *)

\* The corner points among those BoundingBox.get_random_point can draw
\* (images.py:83-96).
CornerPoints(box) ==
    {Coordinate(x, y) : x \in {box.min_x, box.max_x}, y \in {box.min_y, box.max_y}}

\* handle_augments, lines 95-103: nothing is done without an offer; with
\* one the reroll controls are shuffled.
handle_augments_offer ==
    /\ fn_pc = "handle_augments"
    /\ IF ~fn_args.is_augment_offered
       THEN /\ fn_pc' = "returned"
            /\ UNCHANGED fn_locals
       ELSE /\ \E augment_rolls \in Shuffles(<<"augment_one_roll", "augment_two_roll",
                                                "augment_three_roll">>) :
                  fn_locals' = [augment_rolls |-> augment_rolls, visited |-> 0]
            /\ fn_pc' = "for_augment"
    /\ UNCHANGED <<fn_args, fn_result>>
    /\ FnRest

\* handle_augments, lines 104-108: one reroll control is visited; a coin
\* decides whether it is clicked.  fn_result lists the taps sent.
handle_augments_roll ==
    /\ fn_pc = "for_augment"
    /\ LET augment == fn_locals.augment_rolls[fn_locals.visited + 1]
       IN  \E coin \in BOOLEAN :
             IF coin
             THEN \E point \in CornerPoints(Button[augment]) :
                    fn_result' = Append(fn_result, [target |-> augment, point |-> point])
             ELSE UNCHANGED fn_result
    /\ fn_locals' = [fn_locals EXCEPT !.visited = @ + 1]
    /\ fn_pc' = IF fn_locals.visited + 1 = Len(fn_locals.augment_rolls)
                THEN "pick" ELSE "for_augment"
    /\ UNCHANGED fn_args
    /\ FnRest

\* handle_augments, lines 109-116: one augment is drawn and clicked.
handle_augments_pick ==
    /\ fn_pc = "pick"
    /\ \E augment \in Augments : \E point \in CornerPoints(Button[augment]) :
          fn_result' = Append(fn_result, [target |-> augment, point |-> point])
    /\ fn_pc' = "returned"
    /\ UNCHANGED <<fn_args, fn_locals>>
    /\ FnRest

InitAugments ==
    /\ AppIdle
    /\ GameIdle
    /\ DeviceIdle
    /\ RecordIdle
    /\ fn_pc = "handle_augments"
    /\ fn_args \in [is_augment_offered : BOOLEAN]
    /\ fn_locals = <<>>
    /\ fn_result = <<>>

NextAugments ==
    \/ handle_augments_offer
    \/ handle_augments_roll
    \/ handle_augments_pick

SpecAugments == InitAugments /\ [][NextAugments]_vars

----------------------------------------------------------------------------
(* AluneConfig validation and getters (config.py) *)

\* The values a user's config file can hold for a key; Missing stands for a
\* key the file does not have, Null for a key without a value.
Text(s) == [str |-> s]
Number(n) == [int |-> n]
Missing == [missing |-> TRUE]
Null == [null |-> TRUE]
KeyError == [raised |-> "KeyError"]
TypeError == [raised |-> "TypeError"]

UserConfigs ==
    [log_level : {Missing, Text("INFO"), Text("DEBUG"), Text("debug"), Text("Critical"),
                  Text("verbose")},
     game_mode : {Missing, Text("normal"), Text("Normal"), Text("dawn of heroes"),
                  Text("ranked")},
     adb_port : {Missing, Null, Number(5555), Number(5037), Text("5556"), Text("abc")}]

\* dict.get(key, default).
Get(config, key, default) == IF config[key] = Missing THEN default ELSE config[key]

\* str.upper on the strings above.
upper(value) ==
    CASE value = Text("debug") -> Text("DEBUG")
      [] value = Text("Critical") -> Text("CRITICAL")
      [] value = Text("verbose") -> Text("VERBOSE")
      [] value = Text("normal") -> Text("NORMAL")
      [] value = Text("Normal") -> Text("NORMAL")
      [] value = Text("dawn of heroes") -> Text("DAWN OF HEROES")
      [] value = Text("ranked") -> Text("RANKED")
      [] OTHER -> value

\* int(value): a ValueError for a string that is no number, a TypeError for
\* None.
int(value) ==
    CASE value = Text("5556") -> Number(5556)
      [] value = Text("abc") -> [raised |-> "ValueError"]
      [] value = Null -> TypeError
      [] OTHER -> value

\* _sanitize_log_level, lines 82-89: the upper-cased level is tested, the
\* configured one is kept unless the test fails.
sanitize_log_level(config) ==
    LET log_level == upper(Get(config, "log_level", Text("INFO")))
    IN  IF log_level \notin {Text("DEBUG"), Text("INFO"), Text("WARNING"), Text("ERROR"),
                             Text("CRITICAL")}
        THEN [config EXCEPT !.log_level = Text("INFO")]
        ELSE config

\* _sanitize_game_mode, lines 91-98.
sanitize_game_mode(config) ==
    LET configured == Get(config, "game_mode", Text("normal"))
    IN  IF configured \notin {Text("normal"), Text("dawn of heroes")}
        THEN [config EXCEPT !.game_mode = Text("normal")]
        ELSE config

\* _sanitize_adb_port, lines 73-80: only a ValueError is caught.
sanitize_adb_port(config) ==
    LET adb_port == int(Get(config, "adb_port", Number(5555)))
    IN  IF adb_port = TypeError THEN TypeError
        ELSE IF adb_port = [raised |-> "ValueError"]
             THEN [config EXCEPT !.adb_port = Number(5555)]
             ELSE [config EXCEPT !.adb_port = adb_port]

\* get_log_level (127-134), get_game_mode (176-183): self._config[key];
\* get_adb_port (136-143): self._config.get("adb_port", 5555).
get_log_level(config) == IF config.log_level = Missing THEN KeyError ELSE config.log_level
get_game_mode(config) == IF config.game_mode = Missing THEN KeyError ELSE config.game_mode
get_adb_port(config) == Get(config, "adb_port", Number(5555))

\* _sanitize, lines 63-72, without the traits: fn_locals is self._config.
sanitize_config ==
    /\ fn_pc = "sanitize_config"
    /\ LET sanitized == sanitize_adb_port(sanitize_game_mode(sanitize_log_level(fn_args)))
       IN  IF sanitized = TypeError
           THEN /\ fn_pc' = "raised"
                /\ fn_result' = TypeError
                /\ UNCHANGED fn_locals
           ELSE /\ fn_pc' = "sanitized"
                /\ fn_locals' = sanitized
                /\ UNCHANGED fn_result
    /\ UNCHANGED fn_args
    /\ FnRest

\* The getters called on the validated config.
get_settings ==
    /\ fn_pc = "sanitized"
    /\ fn_result' = [log_level |-> get_log_level(fn_locals),
                     game_mode |-> get_game_mode(fn_locals),
                     adb_port |-> get_adb_port(fn_locals)]
    /\ fn_pc' = "read"
    /\ UNCHANGED <<fn_args, fn_locals>>
    /\ FnRest

InitConfig ==
    /\ AppIdle
    /\ GameIdle
    /\ DeviceIdle
    /\ RecordIdle
    /\ fn_pc = "sanitize_config"
    /\ fn_args \in UserConfigs
    /\ fn_locals = <<>>
    /\ fn_result = <<>>

NextConfig ==
    \/ sanitize_config
    \/ get_settings

SpecConfig == InitConfig /\ [][NextConfig]_vars

----------------------------------------------------------------------------
(* One tick of TFTApp.loop with a capture that may yield no frame *)

\* What ADB.get_screen returns (adb.py:208-226): None until the first
\* frame of the screen record is decoded, else the pixels.
NoneFrame == [is_none |-> TRUE, pixels |-> {}]
Frame(pixels) == [is_none |-> FALSE, pixels |-> pixels]

\* get_match_template, screen.py:71-95: the image is cropped and handed to
\* cv2.matchTemplate; None cannot be cropped.
get_match_template(image) ==
    IF image.is_none THEN TypeError ELSE [search_result |-> image.pixels]

\* TFTApp.loop, line 227.
loop_get_screen ==
    /\ fn_pc = "get_screen"
    /\ \/ fn_locals' = NoneFrame
       \/ \E pixels \in SUBSET ClassifierProbes : fn_locals' = Frame(pixels)
    /\ fn_pc' = "get_app_state"
    /\ UNCHANGED <<fn_args, fn_result>>
    /\ FnRest

\* TFTApp.loop, lines 228-234: get_app_state probes the screenshot with
\* get_button_on_screen first (app.py:177), which calls get_match_template.
loop_get_app_state ==
    /\ fn_pc = "get_app_state"
    /\ IF get_match_template(fn_locals) = TypeError
       THEN /\ fn_result' = TypeError
            /\ fn_pc' = "raised"
       ELSE /\ fn_result' = get_app_state(get_match_template(fn_locals).search_result,
                                         fn_args.game_mode)
            /\ fn_pc' = IF get_app_state(get_match_template(fn_locals).search_result,
                                         fn_args.game_mode)
                            = NoResult
                        THEN "sleep" ELSE "take_app_decision"
    /\ UNCHANGED <<fn_args, fn_locals>>
    /\ FnRest

InitTick ==
    /\ AppIdle
    /\ GameIdle
    /\ DeviceIdle
    /\ RecordIdle
    /\ fn_pc = "get_screen"
    /\ fn_args \in [game_mode : GameModes]
    /\ fn_locals = <<>>
    /\ fn_result = <<>>

NextTick ==
    \/ loop_get_screen
    \/ loop_get_app_state

SpecTick == InitTick /\ [][NextTick]_vars

----------------------------------------------------------------------------
(* One call of ADB.load (alune/adb.py)                                      *)

LocalPorts == 5555 .. 5557

\* self._device: None, or a device object with its `available` property.
NoDevice == [is_none |-> TRUE, port |-> 0, available |-> FALSE]
AdbDeviceTcpAsync(port, available) ==
    [is_none |-> FALSE, port |-> port, available |-> available]

\* device.connect(...) returns a truthy or a falsy value, raises OSError, or
\* raises an error that is no OSError (adb_shell's TcpTimeoutException).
ConnectResults == {"connected", "not_connected", "OSError", "TcpTimeoutException"}

Attempt(port, result) == [port |-> port, result |-> result]

\* is_connected, lines 157-164.
is_connected(device) == ~device.is_none /\ device.available

\* _connect_to_device, lines 134-151, for the arguments in fn_args: one
\* connection attempt and the handling of its result.
connect_to_device ==
    /\ fn_pc = "connect"
    /\ \E result \in ConnectResults :
         LET device == AdbDeviceTcpAsync(fn_args.port, TRUE)
             attempts == Append(fn_locals.attempts, Attempt(fn_args.port, result))
             held == fn_locals.device
         IN  CASE result = "connected" ->
                    /\ fn_locals' = [fn_locals EXCEPT !.device = device,
                                                      !.attempts = attempts]
                    /\ fn_pc' = "returned"
               [] result = "TcpTimeoutException" ->
                    /\ fn_locals' = [fn_locals EXCEPT !.attempts = attempts]
                    /\ fn_pc' = "raised"
               [] OTHER ->
                    LET after_except == IF result = "OSError" THEN NoDevice ELSE held
                    IN  IF ~fn_args.retry_with_scan
                          THEN /\ fn_locals' = [fn_locals EXCEPT !.device = NoDevice,
                                                                 !.attempts = attempts]
                               /\ fn_pc' = "returned"
                          ELSE /\ fn_locals' = [fn_locals EXCEPT !.device = after_except,
                                                                 !.attempts = attempts]
                               /\ fn_pc' = "scan"
    /\ UNCHANGED <<fn_args, fn_result>>
    /\ FnRest

\* Lines 153-155 with scan_localhost_devices, lines 87-114: the scan returns
\* the first port that answers or None; with a port the connection is tried
\* once more, without a further scan.
scan_localhost_devices ==
    /\ fn_pc = "scan"
    /\ \/ /\ fn_args' = fn_args
          /\ fn_pc' = "returned"
       \/ \E open_adb_port \in LocalPorts :
             /\ fn_args' = [port |-> open_adb_port, retry_with_scan |-> FALSE]
             /\ fn_pc' = "connect"
    /\ fn_locals' = [fn_locals EXCEPT !.scans = @ + 1]
    /\ UNCHANGED fn_result
    /\ FnRest

\* load, lines 60-65, called on a new instance (lines 46-48) or on one that
\* holds the device of an earlier connection.
InitLoad ==
    /\ AppIdle
    /\ GameIdle
    /\ DeviceIdle
    /\ RecordIdle
    /\ fn_pc = "connect"
    /\ \E default_port \in LocalPorts :
          /\ fn_args = [port |-> default_port, retry_with_scan |-> TRUE]
          /\ \E earlier \in {NoDevice, AdbDeviceTcpAsync(default_port, TRUE),
                             AdbDeviceTcpAsync(default_port, FALSE)} :
                fn_locals = [device |-> earlier, attempts |-> <<>>, scans |-> 0]
    /\ fn_result = <<>>

NextLoad ==
    \/ connect_to_device
    \/ scan_localhost_devices

SpecLoad == InitLoad /\ [][NextLoad]_vars

LoadEnded == fn_pc \in {"returned", "raised"}
Succeeded(attempts) ==
    \E i \in 1..Len(attempts) : attempts[i].result = "connected"

\* C38: one call of load makes at most two connection attempts and at most
\* one port scan, and when no attempt succeeded the instance holds no device
\* once the call has ended, so is_connected is false.
C38_FailedLoadHoldsNoDevice ==
    fn_pc \in {"connect", "scan", "returned", "raised"} =>
      /\ Len(fn_locals.attempts) <= 2
      /\ fn_locals.scans <= 1
      /\ (LoadEnded /\ ~Succeeded(fn_locals.attempts)) =>
            (fn_locals.device.is_none /\ ~is_connected(fn_locals.device))

----------------------------------------------------------------------------
(* Properties of the classifier, the dispatcher and the queue negotiator *)

IsInput(a) == a.kind \in {"click", "click_image", "key"}
IsAcceptClick(a) == a = Click("accept")
IsPlayClick(a) == a = Click("play")

InputActions(seq) == SelectSeq(seq, IsInput)
AcceptClicks(seq) == Len(SelectSeq(seq, IsAcceptClick))
PlayClicks(seq) == Len(SelectSeq(seq, IsPlayClick))

\* What the negotiator itself issued: everything after the dispatcher's play click.
NegotiatorActions == SubSeq(actions, qstart + 1, Len(actions))

PriorityOrder ==
    <<"CHOICE_CONFIRM", "LOADING", "MAIN_MENU", "CHOOSE_MODE", "QUEUE_MISSED",
      "LOBBY", "IN_GAME", "POST_GAME_DAWN_OF_HEROES", "POST_GAME">>

ModeIcon == IF game_mode = "dawn of heroes" THEN "dawn_of_heroes" ELSE "normal_game"

Satisfied(i) ==
    CASE i = 1 -> "check_choice" \in screenshot
      [] i = 2 -> "rito_logo" \in screenshot
      [] i = 3 -> "play" \in screenshot /\ "back" \notin screenshot
      [] i = 4 -> ModeIcon \in screenshot
      [] i = 5 -> "check" \in screenshot
      [] i = 6 -> {"close_lobby", "play"} \subseteq screenshot
      [] i = 7 -> screenshot \cap {"composition", "items"} # {}
      [] i = 8 -> {"back", "dawn_of_heroes_continue"} \subseteq screenshot
      [] i = 9 -> {"first_place", "back"} \subseteq screenshot

SatisfiedSet == {i \in 1..9 : Satisfied(i)}

Classified == pc \in {"dispatch", "unknown"}

\* C1: on every classified frame the result is the state of the first
\* satisfied predicate of the fixed priority order, every earlier predicate
\* being unsatisfied, for every combination of probe outcomes.
C1_FirstSatisfiedWins ==
    (Classified /\ SatisfiedSet # {}) =>
        \E i \in SatisfiedSet :
            /\ game_state_image_result.game_state = PriorityOrder[i]
            /\ \A j \in 1..(i - 1) : ~Satisfied(j)

C1_Witness ==
    /\ pc = "dispatch"
    /\ {6, 7, 8, 9} \subseteq SatisfiedSet
    /\ game_state_image_result.game_state = "LOBBY"

\* C2 as stated: every frame showing the close-lobby icon and the play icon
\* is classified as lobby.
C2_EveryLobbyFrameIsLobby ==
    (Classified /\ {"close_lobby", "play"} \subseteq screenshot) =>
        game_state_image_result.game_state = "LOBBY"

InQueue ==
    pc \in {"wait_capture", "wait_sleep", "queue_timeout", "queue_accept",
            "accepted_poll", "settle", "queue_return"}

\* C2 amended: a frame showing the close-lobby icon and the play icon in which
\* no earlier predicate of the priority order is satisfied (no choice-confirm,
\* no logo, the back icon present, no configured mode icon, no check) is
\* classified as lobby; a lobby classification is dispatched as a click on
\* play followed by the queue negotiator.
C2_LobbyFrameDispatchedAsLobby ==
    /\ (Classified /\ {"close_lobby", "play"} \subseteq screenshot
           /\ (\A j \in 1..5 : ~Satisfied(j)))
       => game_state_image_result.game_state = "LOBBY"
    /\ (game_state_image_result.game_state = "LOBBY" /\ pc # "dispatch")
       => (/\ qstart >= 1 /\ qstart <= Len(actions)
           /\ actions[qstart] = Click("play")
           /\ InputActions(SubSeq(actions, 1, qstart - 1)) = <<>>
           /\ rounds >= 1
           /\ InQueue \/ (pc = "sleep" /\ outcome # "none"))

C2_Witness ==
    /\ pc = "queue_accept"
    /\ game_state_image_result.game_state = "LOBBY"
    /\ actions = <<Click("play")>>

NeverAccept == \A i \in 1..Len(polls) : ~polls[i]

\* C3 as stated: when the accept control never shows, the negotiator aborts
\* within one polling interval of the timeout and issues no click at all.
C3_TimeoutWithoutAnyClick ==
    (outcome = "timeout" /\ rounds = 1) =>
        (/\ NeverAccept
         /\ waited >= queue_timeout
         /\ waited <= queue_timeout + AcceptPollInterval
         /\ InputActions(NegotiatorActions) = <<>>)

\* C3 amended: when the accept control never shows, the wait is aborted within
\* one polling interval of the timeout, no click is issued during the wait, the
\* accept control is never clicked, and after the abort the negotiator issues
\* exactly one click, on the exit-lobby control.
C3_TimeoutClicksExitLobbyOnly ==
    /\ (pc = "queue_timeout" /\ rounds = 1) =>
          (/\ NeverAccept
           /\ waited >= queue_timeout
           /\ waited <= queue_timeout + AcceptPollInterval
           /\ NegotiatorActions = <<>>)
    /\ (outcome = "timeout" /\ rounds = 1) =>
          (/\ NeverAccept
           /\ NegotiatorActions = <<Click("exit_lobby")>>)

C3_Witness ==
    /\ outcome = "timeout"
    /\ rounds = 1
    /\ Len(polls) = 3
    /\ NeverAccept
    /\ NegotiatorActions = <<Click("exit_lobby")>>

\* C6: when no predicate matches, get_app_state returns no state and the tick
\* is a no-op: no click, key event or other input is issued in it, and the
\* loop only pauses and goes on to the next tick's capture.
C6_UnknownIsNoOp ==
    [][/\ (Classified' /\ SatisfiedSet' = {}) =>
            (/\ pc' = "unknown"
             /\ game_state_image_result' = NoResult
             /\ InputActions(actions') = <<>>)
       /\ pc = "unknown" =>
            (/\ InputActions(actions) = <<>>
             /\ InputActions(actions') = <<>>
             /\ pc' = "loop")]_vars

C6_Witness ==
    /\ pc = "unknown"
    /\ screenshot = {"back", "close_lobby"}
    /\ actions = <<Launch>>

AcceptFirstSeenOnLastPoll ==
    /\ polls # <<>>
    /\ polls[Len(polls)]
    /\ \A i \in 1..(Len(polls) - 1) : ~polls[i]

\* C7: the accept control is clicked only after a captured frame showed it: at
\* the click the last poll of the round is the first one that found the
\* control, and each waiting round issues exactly one accept click.
C7_AcceptClickedOnlyAfterSeen ==
    /\ pc = "queue_accept" => (AcceptFirstSeenOnLastPoll /\ "accept" \in screenshot)
    /\ pc \in {"accepted_poll", "settle"} => AcceptFirstSeenOnLastPoll
    /\ pc \in {"wait_capture", "wait_sleep"} => NeverAccept
    /\ pc \in {"wait_capture", "wait_sleep", "queue_accept", "queue_timeout"}
         => AcceptClicks(actions) = rounds - 1
    /\ pc \in {"accepted_poll", "settle"} => AcceptClicks(actions) = rounds
    /\ (pc \in {"queue_return", "sleep"} /\ outcome = "resolved")
         => AcceptClicks(actions) = rounds
    /\ (pc \in {"queue_return", "sleep"} /\ outcome = "timeout")
         => AcceptClicks(actions) = rounds - 1
    /\ ~InQueue /\ outcome = "none" => AcceptClicks(actions) = 0

C7_Witness ==
    /\ pc = "accepted_poll"
    /\ polls = <<FALSE, FALSE, TRUE>>
    /\ actions = <<Click("play"), Click("accept")>>

\* C8: accept visible on the first poll, the accepted overlay visible on
\* exactly K polls and then absent, nothing visible after the settle delay:
\* the negotiation returns resolved after K + 1 evaluations of the accepted
\* check, with one accept click and a single round.
C8_ResolvedAfterKPlusOneChecks ==
    (outcome = "resolved" /\ rounds = 1) =>
        (/\ pc \in {"queue_return", "sleep"}
         /\ accepted_checks = accepted_seen + 1
         /\ AcceptClicks(actions) = 1
         /\ NegotiatorActions = <<Click("accept")>>
         /\ screenshot \cap {"accept", "play", "accepted"} = {})

C8_Witness ==
    /\ outcome = "resolved"
    /\ rounds = 1
    /\ polls = <<TRUE>>
    /\ accepted_seen = 2
    /\ accepted_checks = 3

\* C9: after the overlay cleared and the settle delay passed the negotiator
\* captures again: with accept or play visible it re-enters the wait with a
\* fresh timeout and without clicking play again; with neither it returns
\* and issues no further click.
C9_SettleRequeuesOrReturns ==
    [][/\ pc = "settle" =>
            IF screenshot' \cap {"accept", "play"} # {}
            THEN /\ pc' = "wait_capture"
                 /\ waited' = 0
                 /\ polls' = <<>>
                 /\ rounds' = rounds + 1
                 /\ actions' = actions
            ELSE /\ pc' = "queue_return"
                 /\ outcome' = "resolved"
                 /\ actions' = actions
       /\ (pc = "queue_return" /\ outcome = "resolved") => actions' = actions
       /\ (InQueue /\ InQueue') => PlayClicks(actions') = 1]_vars

C9_Witness ==
    /\ pc = "wait_capture"
    /\ rounds = 2
    /\ waited = 0
    /\ screenshot = {"play"}
    /\ actions = <<Click("play"), Click("accept")>>

\* C10: a queue timeout is recoverable: the negotiator returns to the
\* dispatcher normally, the accept control is not clicked for the wait that
\* timed out, and the outer loop goes on to its next tick.
C10_TimeoutIsRecoverable ==
    [][/\ pc = "queue_timeout" =>
            (/\ pc' = "queue_return"
             /\ outcome' = "timeout"
             /\ AcceptClicks(actions') = AcceptClicks(actions))
       /\ outcome = "timeout" =>
            (/\ pc \in {"queue_return", "sleep"}
             /\ pc = "queue_return" => pc' = "sleep"
             /\ pc = "sleep" => pc' = "loop"
             /\ AcceptClicks(actions') <= rounds - 1)]_vars

C10_Witness ==
    /\ pc = "sleep"
    /\ outcome = "timeout"
    /\ game_state_image_result.game_state = "LOBBY"
    /\ AcceptClicks(actions) = 0

\* C35: every run of the queue negotiator returns to the dispatcher; a wait
\* for the accept control ends, by the control being found or, at the
\* latest, by the timeout; and a wait that has not polled yet, the first
\* one as well as one entered after a decline, has its whole timeout ahead.
C35_NegotiatorEventuallyReturns ==
    /\ [](((InQueue /\ pc # "queue_return") ~> (pc = "queue_return")))
    /\ (pc = "queue_return") ~> (pc = "sleep")
    /\ (pc \in {"wait_capture", "wait_sleep"}) ~> (pc \in {"queue_timeout", "queue_accept"})
    /\ []((pc = "wait_capture" /\ polls = <<>>) => waited = 0)
    /\ []((pc \in {"wait_capture", "wait_sleep"}) => waited <= queue_timeout)

\* A negotiator run that was declined once, waited again and then timed out.
C35_Witness ==
    /\ pc = "queue_return"
    /\ rounds = 2
    /\ outcome = "timeout"
    /\ waited = queue_timeout
    /\ queue_timeout = MaxQueueTimeout

IsNegotiatorClick(a) == a \in {Click("accept"), Click("exit_lobby")}

\* C13: on the lobby state the dispatcher clicks play once and then runs the
\* queue negotiator until it returns: from the play click to the negotiator's
\* return the classification is not replaced, no second play click and no
\* other dispatch action is issued, and control then goes back to the loop.
C13_LobbyRunsNegotiatorToCompletion ==
    [][/\ (pc = "dispatch" /\ game_state_image_result.game_state = "LOBBY") =>
            (/\ pc' = "wait_capture"
             /\ actions' = Append(actions, Click("play"))
             /\ rounds' = 1)
       /\ (InQueue /\ pc # "queue_return") =>
            (/\ InQueue'
             /\ game_state_image_result' = game_state_image_result
             /\ game_state_image_result.game_state = "LOBBY"
             /\ actions'[qstart'] = Click("play")
             /\ PlayClicks(actions') = 1
             /\ \A i \in (qstart' + 1)..Len(actions') : IsNegotiatorClick(actions'[i]))
       /\ pc = "queue_return" =>
            (/\ pc' = "sleep"
             /\ outcome \in {"resolved", "timeout"}
             /\ actions' = actions)]_vars

C13_Witness ==
    /\ pc = "queue_return"
    /\ outcome = "resolved"
    /\ rounds = 2
    /\ actions = <<Launch, Click("play"), Click("accept"), Click("accept")>>

\* C14: a mode-select classification carries the located mode icon, never an
\* empty payload, and the tick's single click lands inside the located
\* rectangle [x, x+width] x [y, y+height] of that icon.
C14_ModeSelectClicksLocatedIcon ==
    /\ game_state_image_result.game_state = "CHOOSE_MODE" =>
         (/\ game_state_image_result.image_result = game_mode_image(game_mode)
          /\ image_box \in ImageSearchResults
          /\ pc = "sleep" =>
                (/\ tap # NoTap
                 /\ InputActions(actions)
                      = <<[kind |-> "click_image",
                           target |-> game_mode_image(game_mode)]>>))
    /\ tap # NoTap =>
         (/\ game_state_image_result.game_state = "CHOOSE_MODE"
          /\ tap[1] \in image_box.x..(image_box.x + image_box.width)
          /\ tap[2] \in image_box.y..(image_box.y + image_box.height))

C14_Witness ==
    /\ pc = "sleep"
    /\ game_state_image_result.game_state = "CHOOSE_MODE"
    /\ game_mode = "dawn of heroes"
    /\ image_box = ImageSearchResult(1, 0, 1, 1)
    /\ tap = <<2, 1>>

\* The step issues a device input or a game decision.
IssuesInput ==
    /\ actions' # actions
    /\ actions' # <<>>
    /\ \/ IsInput(actions'[Len(actions')])
       \/ actions'[Len(actions')] = Decision

\* C20: while the bot is paused (toggle_pause has set the pause flag and has
\* not been called again), no step of the outer loop or of the in-match loop
\* issues a click, a key event or a game decision.
C20_NoInputWhilePaused ==
    [][(pause /\ pause') => ~IssuesInput]_vars

\* The step clicks play on the lobby and enters queue(), or queue() calls
\* itself for another round.
StartsNewGame == rounds' > rounds

\* C21: while play-next-game is disabled (toggle_play_next_game has cleared
\* the flag and has not been called again), no step clicks play on the lobby
\* and no run of the queue negotiator begins.
C21_NoNewGameWhileDisabled ==
    [][(~play_next_game /\ ~play_next_game') => ~StartsNewGame]_vars

\* The frame shows the end of the match: the exit control, or a post-game
\* screen of either variant.
MatchEndDetected(frame) ==
    \/ get_button_on_screen(frame, "exit_now")
    \/ IsPostGame(get_app_state(frame \ {"exit_now"}, game_mode))

InGameLoop == pc \in {"game_iter", "game_check"}

\* C12 as stated: the in-match loop is left only when a captured frame shows
\* the exit control or is classified as post-match.
C12_LoopLeftOnlyOnMatchEnd ==
    [][(InGameLoop /\ ~InGameLoop') =>
          (pc = "game_check" /\ MatchEndDetected(screenshot'))]_vars

\* C12 amended: each iteration of the in-match loop either finds the app
\* closed, relaunches it and leaves the loop, or runs one take_game_decision
\* and captures a frame; it leaves the loop after the capture exactly when
\* the frame shows the exit control or is classified as post-match.  Every
\* exit from the loop clicks the exit control and returns to the outer loop.
C12_LoopLeftOnMatchEndOrAppClosed ==
    [][/\ pc = "game_iter" =>
            \/ pc' = "game_check" /\ actions' = <<Decision>>
            \/ pc' = "exit_click" /\ actions' = <<Launch>>
       /\ pc = "game_check" =>
            /\ pc' = IF MatchEndDetected(screenshot') THEN "exit_click" ELSE "game_iter"
            /\ actions' = actions
       /\ pc = "exit_click" =>
            /\ pc' = "sleep"
            /\ actions' = Append(actions, Click("exit_now"))]_vars

C12_Witness ==
    /\ pc = "sleep"
    /\ game_state_image_result.game_state = "IN_GAME"
    /\ actions = <<Launch, Click("exit_now")>>

ExitClicks(seq) == {i \in 1..Len(seq) : seq[i] = Click("exit_now")}
DispatchedInGame == game_state_image_result.game_state = "IN_GAME"

\* C34: the in-match dispatch ends, however its loop was left or skipped,
\* with exactly one click on the exit control as its last command and then
\* the wait; no exit click is sent while the dispatch is still running, and
\* with the exit control on the first frame the click is sent with no game
\* decision taken.
C34_EveryExitClicksExitOnce ==
    [][/\ (pc' = "sleep" /\ DispatchedInGame') => ExitClicks(actions') = {Len(actions')}
       /\ (InGameLoop' \/ pc' = "exit_click") =>
             (ExitClicks(actions') = {} /\ DispatchedInGame')
       /\ (pc = "dispatch" /\ DispatchedInGame) =>
             /\ pc' = IF "exit_now" \in screenshot' THEN "exit_click" ELSE "game_iter"
             /\ actions' = actions
       /\ (InGameLoop /\ ~InGameLoop') => pc' = "exit_click"
       /\ pc = "exit_click" =>
             /\ pc' = "sleep"
             /\ Len(actions') = Len(actions) + 1
             /\ SubSeq(actions', 1, Len(actions)) = actions]_vars

\* The exit control was on the first frame: one click, no game decision.
C34_Witness ==
    /\ pc = "sleep"
    /\ game_state_image_result.game_state = "IN_GAME"
    /\ screenshot = {"exit_now"}
    /\ actions = <<Click("exit_now")>>

----------------------------------------------------------------------------
(* Properties of the match decision engine *)

StepOf(a) ==
    CASE a.target \in {"return_to_board", "carousel"} -> "board"
      [] a.target \in AugmentRolls \cup Augments -> "augment"
      [] a.target = "choose_one_hidden" -> "hidden"
      [] a.target = "choose_one" -> "active"
      [] a.target = "buy_xp" -> "xp"
      [] a.target \in {StoreCards[i] : i \in 1..Len(StoreCards)} -> "shop"
      [] a.target \in {"expand_top_bar", "back", "surrender", "check_surrender"}
           -> "surrender"

StepsActed == {StepOf(gactions[i]) : i \in 1..Len(gactions)}

\* C4 as stated: other-board view, augment offer, hidden choice and active
\* choice each exclude every other step of the same tick.
C4_EarlyStepsExcludeAllOthers ==
    \A s \in {"board", "augment", "hidden", "active"} :
        s \in StepsActed => StepsActed = {s}

\* C4 amended: the other-board view and the active choice end the tick: after
\* an other-board action no other step acts in the tick, and the click on the
\* active choice is the tick's last action, so no XP purchase, shop purchase or
\* surrender action follows it.  The augment offer and the hidden choice do not
\* end the tick: later steps may act after them.
C4_BoardAndActiveChoiceEndTick ==
    /\ "board" \in StepsActed => (StepsActed = {"board"} /\ gpc \in {"board", "done"})
    /\ "active" \in StepsActed =>
         (/\ gpc = "done"
          /\ gactions[Len(gactions)] = Click("choose_one")
          /\ StepsActed \subseteq {"augment", "hidden", "active"})

C4_Witness ==
    /\ gpc = "done"
    /\ StepsActed = {"augment", "hidden", "active"}

\* C31: a tick that found the return-to-board control clicks it and ends
\* with no augment, choice, XP, shop or surrender action; when it clicked
\* into the carousel region, it then waits 3 to 9 before it ends.
C31_CarouselClickThenRandomWait ==
    LET carousel == [kind |-> "click_box", target |-> "carousel"]
        clicked == {i \in 1..Len(gactions) : gactions[i] = carousel}
    IN  /\ "board" \in StepsActed =>
              /\ StepsActed = {"board"}
              /\ gactions[1] = Click("return_to_board")
              /\ xp_rolled = "none" /\ shop_found = <<>> /\ ~surrender_checked
        /\ \A i \in clicked :
              gpc = "done" =>
                \E k \in 1..Len(board_sleeps) :
                    /\ board_sleeps[k].after >= i
                    /\ board_sleeps[k].seconds \in 3..9

\* C27: once the active choice prompt was recognised and clicked the tick is
\* over: the click is the tick's last command, and the tick has made no XP
\* roll or purchase, no shop search or purchase and no surrender check or
\* surrender action.
C27_ActiveChoiceSkipsXpShopSurrender ==
    Click("choose_one") \in {gactions[i] : i \in 1..Len(gactions)} =>
        /\ gpc = "done"
        /\ gactions[Len(gactions)] = Click("choose_one")
        /\ xp_rolled = "none"
        /\ traits_left = 0 /\ shop_matches = 0 /\ shop_found = <<>>
        /\ ~surrender_checked
        /\ StepsActed \cap {"xp", "shop", "surrender"} = {}

C27_Witness ==
    /\ gpc = "done"
    /\ gactions = <<Click("choose_one")>>
    /\ surrender_early
    /\ xp_chance = 100

IsSurrenderCommand(a) ==
    a \in {KeyEvent("back"), Click("surrender"), Click("check_surrender")}

C5_NoSurrenderWhenDisabled ==
    ~surrender_early =>
        (/\ gpc # "surrender"
         /\ \A i \in 1..Len(gactions) :
              gactions[i] \notin {Click("expand_top_bar"), KeyEvent("back"),
                                  Click("surrender"), Click("check_surrender")})

C5_Witness ==
    /\ ~surrender_early
    /\ surrender_checked
    /\ gpc = "done"
    /\ "phase_3_2_full" \in gshot
    /\ "collapse_top_bar" \notin gshot

IsShopClick(a) == StepOf(a) = "shop"
IsXpClick(a) == a = Click("buy_xp")

\* C11: when the buy-XP control is visible, the chance roll succeeds and a
\* watched trait has a match whose middle lies in a store card, the tick
\* issues the XP click and the store-card click, the XP click first; the
\* store-card clicks of the tick are those of the qualifying matches.
C11_XpClickBeforeShopClick ==
    (xp_rolled = "hit" /\ \E k \in 1..Len(shop_found) : shop_found[k] # 0) =>
        (/\ Len(SelectSeq(gactions, IsXpClick)) = 1
         /\ SelectSeq(gactions, IsShopClick)
              = CardClicks(SelectSeq(shop_found, IsCardSlot))
         /\ \A i, j \in 1..Len(gactions) :
              (IsXpClick(gactions[i]) /\ IsShopClick(gactions[j])) => i < j)

C11_Witness ==
    /\ gpc = "surrender_check"
    /\ xp_rolled = "hit"
    /\ xp_chance = 25
    /\ shop_found = <<3>>
    /\ gactions = <<Click("buy_xp"), Click("store_card_three")>>

----------------------------------------------------------------------------
(* Properties of the device layer *)

IsTimeout(result) == result = TcpTimeoutException

Timeouts(log) == Len(SelectSeq(log, IsTimeout))

\* C17: _wrap_shell_call runs a command at most 4 times, waits 1, 2 and 3
\* before the first, second and third retry, returns the output of the first
\* attempt that succeeds, and raises the timeout only after the fourth
\* consecutive timeout.
C17_ShellCallRetriesThreeTimes ==
    shell_command \in ShellCommands =>
        (/\ Len(attempt_log) <= 4
         /\ sleeps = SubSeq(<<1, 2, 3>>, 1, Len(sleeps))
         /\ \A i \in 1..(Len(attempt_log) - 1) : IsTimeout(attempt_log[i])
         /\ dpc = "exec" => Len(sleeps) = Len(attempt_log)
         /\ dpc = "backoff" => Len(sleeps) = Len(attempt_log) - 1
         /\ shell_result \in Outputs =>
              (/\ attempt_log[Len(attempt_log)] = shell_result
               /\ Len(sleeps) = Len(attempt_log) - 1)
         /\ shell_result = TcpTimeoutException <=> Timeouts(attempt_log) = 4
         /\ shell_result = TcpTimeoutException => sleeps = <<1, 2, 3>>)

C17_Witness ==
    /\ dpc = "loop"
    /\ shell_command = "input swipe"
    /\ attempt_log = <<TcpTimeoutException, TcpTimeoutException,
                       TcpTimeoutException, "output b">>
    /\ sleeps = <<1, 2, 3>>
    /\ shell_result = "output b"

\* C16: after a transport timeout left the main loop the wrapper calls load
\* once; if the device is then not connected the process exits with a
\* non-zero status and nothing runs any more, otherwise the main loop runs
\* again.  A failed reconnect is not retried.
C16_OneReconnectThenExitOrResume ==
    [][/\ dpc = "raised" => (dpc' = "reconnect" /\ reconnects' = 0)
       /\ dpc = "reconnect" => (dpc' = "check" /\ reconnects' = 1)
       /\ dpc = "check" =>
            (/\ reconnects' = 1
             /\ IF connected
                THEN dpc' = "loop" /\ exit_status' = 0
                ELSE dpc' = "exited" /\ exit_status' = 1)
       /\ dpc # "exited"
       /\ exit_status = 0]_vars

C16_Witness ==
    /\ dpc = "exited"
    /\ exit_status = 1
    /\ disconnects = 2
    /\ reconnects = 1
    /\ ~connected

----------------------------------------------------------------------------
(* Properties of the screen-record task and the engine's device calls *)

\* C15 as stated: at any time at most one device command is in flight, a
\* command of the engine is awaited before the next is issued, and
\* take_app_decision is not entered again before it returned.
C15_AtMostOneCommandInFlight ==
    /\ Cardinality(inflight) <= 1
    /\ EngineInFlight # {} => epc = "command"
    /\ active_decisions <= 1

\* C15: the engine has at most one device command in flight and is suspended
\* until it completes, take_app_decision is not entered again before it
\* returned, and without screen recording at most one device command is in
\* flight at all; with screen recording the recorder task has one command of
\* its own (its stream or a pkill) in flight next to the engine's.
C15_EngineCommandsSequential ==
    /\ Cardinality(EngineInFlight) <= 1
    /\ EngineInFlight # {} => epc = "command"
    /\ active_decisions <= 1
    /\ Cardinality(RecorderInFlight) <= 1
    /\ ~use_screen_record => RecorderInFlight = {}

C15_Witness ==
    /\ use_screen_record
    /\ active_decisions = 1
    /\ epc = "command"
    /\ inflight = {Command("engine", "input swipe"), Command("recorder", ScreenRecord)}

\* C18: with screen recording in use, the frame get_screen returns is at
\* most 15 time-units old.
C18_HandedFrameIsFresh ==
    (use_screen_record /\ handed # NoFrame) => handed <= FreshnessWindow

StaleObserved == epc = "restart_sleep"

Recording ==
    /\ screen_record_task = "stream"
    /\ ~should_stop_screen_recording
    /\ latest_frame
    /\ latest_frame_age <= FreshnessWindow

\* C19: whenever get_screen has observed a stale frame, eventually a
\* screen-record task streams again with the stop flag cleared and has
\* stored a new frame.
C19_StaleFrameLeadsToRecording == StaleObserved ~> Recording

TaskRunning == screen_record_task \notin {"none", "created", "done"}

\* C37: the _is_screen_recording flag is set only while a screen-record task
\* is running, and once a task has ended, for whatever reason, the flag is
\* false, so that the task create_screen_record_task makes next does not
\* return at its first test but records again.
C37_FlagFalseOnceTaskEnded ==
    /\ is_screen_recording => TaskRunning
    /\ screen_record_task = "done" => ~is_screen_recording

----------------------------------------------------------------------------
(* Properties of the helper functions *)

Near(r, q) ==
    /\ Abs(r.x - q.x) <= r.width \div 2
    /\ Abs(r.y - q.y) <= r.height \div 2

NonOverlapping(locations, width, height) ==
    \A p \in locations, q \in locations :
       p # q => (Abs(p[1] - q[1]) > width \div 2 \/ Abs(p[2] - q[2]) > height \div 2)

\* C22: get_all_on_screen never has two results whose locations are within
\* half the template width and half the template height of each other, and
\* for a surface whose locations above the precision are N pairwise
\* non-overlapping occurrences it returns exactly N results.
C22_NoOccurrenceReportedTwice ==
    fn_pc \in {"get_all_on_screen", "returned"} =>
      /\ \A i, j \in 1..Len(fn_locals.image_search_results) :
            i # j => ~Near(fn_locals.image_search_results[i],
                           fn_locals.image_search_results[j])
      /\ (/\ fn_pc = "returned"
          /\ NonOverlapping(fn_args.search_result, fn_args.to_find_width,
                            fn_args.to_find_height))
            => Len(fn_result) = Cardinality(fn_args.search_result)

\* C33: every pass of the while loop of get_all_on_screen leaves strictly
\* fewer surface cells above the precision than it found, so the loop ends.
C33_EveryPassReducesSurface ==
    [][(fn_pc = "get_all_on_screen" /\ fn_pc' = "get_all_on_screen") =>
          /\ fn_locals'.search_result \subseteq fn_locals.search_result
          /\ fn_locals'.search_result # fn_locals.search_result]_vars

\* The components of a version string of digits and dots, or <<>> when a
\* component is empty or not a number.
Components(version) ==
    LET RECURSIVE parts(_, _, _)
        parts(s, acc, any) ==
            IF s = <<>> THEN (IF any THEN <<acc>> ELSE <<>>)
            ELSE IF Head(s) = "." THEN
                   (IF any /\ parts(Tail(s), 0, FALSE) # <<>>
                    THEN <<acc>> \o parts(Tail(s), 0, FALSE) ELSE <<>>)
            ELSE IF Head(s) = "b" THEN <<>>
            ELSE parts(Tail(s),
                       10 * acc + (CASE Head(s) = "0" -> 0 [] Head(s) = "1" -> 1
                                     [] Head(s) = "2" -> 2),
                       TRUE)
    IN  parts(version, 0, FALSE)

\* a is strictly newer than b: at the first component where they differ,
\* a's is the larger.
StrictlyNewer(a, b) ==
    \E i \in 1..Min(Len(a), Len(b)) :
       /\ a[i] > b[i]
       /\ \A j \in 1..(i - 1) : a[j] = b[j]

\* C23: for dotted numeric version strings a and b, is_version_string_newer(a, b)
\* is true exactly when a is strictly newer than b, comparing components from
\* the most significant; it is never true for both (a, b) and (b, a).
C23_NewerIsStrictComponentOrder ==
    (/\ fn_pc = "returned"
     /\ "version_one" \in DOMAIN fn_args
     /\ ~fn_args.ignore_minor_mismatch
     /\ Components(fn_args.version_one) # <<>>
     /\ Components(fn_args.version_two) # <<>>)
      => /\ fn_result = StrictlyNewer(Components(fn_args.version_one),
                                      Components(fn_args.version_two))
         /\ ~(/\ fn_result
              /\ is_version_string_newer(fn_args.version_two, fn_args.version_one, FALSE))

Ordered(box) == box.min_x <= box.max_x /\ box.min_y <= box.max_y

\* C25: for a region with min <= max on both axes the point get_random_point
\* draws is inside the region; every region of the Button catalog has
\* min <= max; so the tap of click_button or click_bounding_box is inside
\* the region it was aimed at.
C25_TapInsideTargetedRegion ==
    /\ \A box \in CatalogBoxes : Ordered(box)
    /\ (fn_pc \in {"clicked", "raised"} /\ Ordered(fn_args.click_box))
         => (fn_pc = "clicked" /\ is_inside(fn_args.click_box, fn_result))

C25_Witness ==
    /\ fn_pc = "clicked"
    /\ fn_args.click_box = Button.augment_three_roll
    /\ fn_result = Coordinate(1016, 659)

MatchCentre(r) == [x |-> r.x + (r.width \div 2), y |-> r.y + (r.height \div 2)]
CardsHolding(c) ==
    {card \in {StoreCards[i] : i \in 1..Len(StoreCards)} :
        /\ Button[card].min_x <= c.x /\ c.x <= Button[card].max_x
        /\ Button[card].min_y <= c.y /\ c.y <= Button[card].max_y}

\* C29: the clicks of a trait's matches are, match by match and whatever
\* the shuffled card order, the one store card whose click box holds the
\* centre of the match, or nothing when no card holds it; the five click
\* boxes are pairwise disjoint; and buy_from_shop returns only after every
\* trait was searched, the traits without a match included.
C29_ClickedCardHoldsMatchCentre ==
    LET cards == {StoreCards[i] : i \in 1..Len(StoreCards)}
        RECURSIVE expected(_)
        expected(k) ==
            IF k = 0 THEN <<>>
            ELSE LET holding == CardsHolding(MatchCentre(fn_locals.search_results[k]))
                 IN  expected(k - 1) \o
                       (IF holding = {} THEN <<>>
                        ELSE <<Click(CHOOSE card \in holding : TRUE)>>)
    IN  fn_pc \in {"for_trait", "shuffle", "for_result", "returned"} =>
          /\ \A a, b \in cards :
                a # b => (Button[a].max_x < Button[b].min_x \/ Button[b].max_x < Button[a].min_x)
          /\ \A k \in 1..Len(fn_locals.search_results) :
                Cardinality(CardsHolding(MatchCentre(fn_locals.search_results[k]))) <= 1
          /\ fn_locals.clicks = expected(fn_locals.result)
          /\ Len(fn_locals.clicks) <= fn_locals.result
          /\ fn_pc = "for_trait" => fn_locals.result = Len(fn_locals.search_results)
          /\ Len(fn_result) = IF fn_pc \in {"shuffle", "for_result"}
                               THEN fn_locals.trait ELSE fn_locals.trait - 1
          /\ fn_pc = "returned" => Len(fn_result) = fn_args.traits

\* A trait without a match was followed by a trait whose match, with its
\* centre on the first column of the second card, bought that card although
\* the shuffle put the second card last.
C29_Witness ==
    /\ fn_pc = "returned"
    /\ fn_result = <<0, 1>>
    /\ fn_locals.search_results = <<ImageSearchResult(391, 160, 23, 23)>>
    /\ fn_locals.store_cards[5] = "store_card_two"
    /\ fn_locals.clicks = <<Click("store_card_two")>>

\* A match between two cards caused no click.
C29_WitnessNoCard ==
    /\ fn_pc = "returned"
    /\ fn_locals.search_results = <<ImageSearchResult(354, 160, 20, 20)>>
    /\ fn_locals.clicks = <<>>

\* The taps of fn_result that land in the click region of a control.
TapsOn(control) ==
    {i \in 1..Len(fn_result) :
        /\ Button[control].min_x <= fn_result[i].point.x
        /\ fn_result[i].point.x <= Button[control].max_x
        /\ Button[control].min_y <= fn_result[i].point.y
        /\ fn_result[i].point.y <= Button[control].max_y}

\* C30: with an offer each reroll control receives at most one tap, and
\* exactly one augment slot is tapped, as the last tap, once every reroll
\* control has been visited; without an offer nothing is tapped.
C30_RerollsOnceThenOneSlot ==
    LET slot_taps == UNION {TapsOn(augment) : augment \in Augments}
    IN  fn_pc \in {"handle_augments", "for_augment", "pick", "returned"} =>
          /\ \A control \in AugmentRolls : Cardinality(TapsOn(control)) <= 1
          /\ Cardinality(slot_taps) <= 1
          /\ slot_taps # {} => (fn_pc = "returned" /\ slot_taps = {Len(fn_result)})
          /\ (fn_pc = "returned" /\ fn_args.is_augment_offered) => slot_taps # {}
          /\ ~fn_args.is_augment_offered => fn_result = <<>>

\* C32: whatever the user's config holds, validation ends without an error
\* and afterwards get_log_level is one of the five levels, get_game_mode is
\* one of the two modes and get_adb_port is an integer.
C32_SanitizedSettingsAreValid ==
    /\ fn_pc # "raised"
    /\ fn_pc = "read" =>
          /\ fn_result.log_level \in {Text("DEBUG"), Text("INFO"), Text("WARNING"),
                                       Text("ERROR"), Text("CRITICAL")}
          /\ fn_result.game_mode \in {Text("normal"), Text("dawn of heroes")}
          /\ DOMAIN fn_result.adb_port = {"int"}

\* C36: a tick whose capture yielded no frame raises no error and makes no
\* dispatch: the absent frame is not handed to get_match_template, the tick
\* only sleeps.
C36_AbsentFrameTickIsSkipped ==
    fn_pc \in {"get_app_state", "raised", "sleep", "take_app_decision"} =>
      /\ fn_pc # "raised"
      /\ (fn_locals.is_none /\ fn_pc # "get_app_state") => fn_pc = "sleep"

TraitSet(mode) == IF mode = "dawn of heroes" THEN DawnOfHeroesTrait ELSE Trait

\* The configured names that name a trait of the mode, whatever their case,
\* in configured order.
ValidConfigured(mode, names) ==
    LET Names(trait) == IF trait = "HEAVENLY" THEN {"heavenly", "HEAVENLY"}
                        ELSE {"dawn_trait"}
        Valid(name) == \E trait \in TraitSet(mode) : name \in Names(trait)
    IN  SelectSeq(names, Valid)

=============================================================================
